---- MODULE Spec2Model ----
(***************************************************************************)
(* KubeROS batch-job controller: the Celery tasks of                       *)
(* main/tasks/batch_job_controller.py working on the records of            *)
(* main/models/batchjobs.py, the stop / resume / delete requests of        *)
(* main/api/batchjobs.py and the pods of the Kubernetes cluster; and the    *)
(* deployment controller: the tasks of main/tasks/deployment_controller.py *)
(* on the records of main/models/deployments.py, with the deploy and       *)
(* delete requests of main/api/deploying.py.                               *)
(*                                                                         *)
(* A task loads a record (a copy, as Django's objects.get returns), calls  *)
(* the cluster and saves the copy (Django's save() writes every field of   *)
(* the copy).  A worker runs a task either in one step, or in two: a load  *)
(* step that takes the task from the queue and keeps the copy in a slot,   *)
(* and a save step, with the steps of other workers in between.            *)
(***************************************************************************)
EXTENDS Integers, FiniteSets, Sequences, TLC

\* ------------------------------------------------------------------ bounds
NumGroups == 2          \* job groups (parameter combinations) of the batch
RepeatNum == 1          \* jobs per group (lifecycleModule.repeatNum)
MaxInFlight == 1        \* tasks that may be between load and save at a time
MaxCopies == 1          \* copies of one task kept in the queue
MaxRequests == 2        \* stop / resume / delete requests
MaxNodes == 1           \* nodes of the exec cluster
MaxDays == 1            \* whole days the clock may advance
MaxSec == 2             \* seconds into a day the clock may advance
MaxParams == 2          \* varying parameters of the job spec
MaxRobots == 2          \* robots of the fleet, one DeploymentJob each
MaxModules == 2         \* onboard module pods of one robot
MaxConfigMaps == 2      \* ConfigMaps of one deployment
MaxChecks == 2          \* status checks that may be between read and save
MaxDeleters == 2        \* delete requests that may be handled at the same time
MaxRows == 2            \* Deployment rows the table can hold
MaxNames == 1           \* deployment names the clients use
MaxClients == 3         \* deploy requests, one per client
MaxHolders == 1         \* requests and tasks holding a copy of a Deployment row
MaxFleets == 2          \* fleet names the requests use
MaxCNodes == 2          \* onboard computers of the main cluster
MaxFleetRequests == 4   \* fleet and deploy requests
MaxFleetDeps == 1       \* active deployments that target one fleet
MaxCpu == 10            \* CPU of a node of the exec cluster, in tenths of a core
MaxPods == 1            \* pods running on a node of the exec cluster
MaxSchedNodes == 2      \* nodes in the cluster state of one scheduling pass
MaxNextJobs == 1        \* jobs handed to one scheduling pass
MaxObjects == 2         \* names of pods, services and ConfigMaps
MaxCalls == 3           \* delete calls of one executer
MaxSyncs == 3           \* syncs of the exec cluster
MaxPending == 2         \* PENDING jobs of the group a scheduling tick visits
PostfixLen == 2         \* characters of a group postfix (the code draws 10)
MaxDeployments == 2     \* Deployment rows that are in progress side by side
MaxClusters == 2        \* main clusters of their fleets

\* ------------------------------------------------------- program constants
DaySeconds == 86400     \* timedelta.seconds is the remainder within a day

TimeoutChoices == {1, DaySeconds}
ClockSteps == {1, DaySeconds}

NoTime == -1            \* a DateTimeField that is NULL

Groups == 1..NumGroups
Jobs == Groups \X (1..RepeatNum)
NoJob == <<0, 0>>
Slots == 1..MaxInFlight

GroupOf(j) == j[1]

RECURSIVE Product(_)
Product(s) == IF s = <<>> THEN 1 ELSE Head(s) * Product(Tail(s))

\* the valueList lengths of the varying parameters of a job spec
ValueLists ==
    {s \in UNION {[1..n -> Groups] : n \in 0..MaxParams} : Product(s) <= NumGroups}

\* pods of a scheduled job: the discovery server and the lifecycle module
Pods == {"disc", "life"}
lifecycle_rosmodule_name == "life"

JobTaskKinds == {"jobctl", "prepare", "deploy", "check", "term"}
DepTaskKinds == {"control", "generate", "sched", "clean"}
TaskIds == (DepTaskKinds \X {NoJob}) \cup (JobTaskKinds \X Jobs)

VARIABLES
    dep,        \* the BatchJobDeployment row
    groups,     \* number of BatchJobGroup rows create_job_groups has created
    cm,         \* per group: result of writing its ConfigMaps
    job,        \* the KuberosJob rows
    pod,        \* per job and pod: the phase the cluster reports
    queue,      \* the Celery queue: copies of each task waiting
    w,          \* per slot: the task that is between its load and its save
    now,        \* wall clock, seconds
    reqs,       \* requests issued so far
    started,    \* per job: job workflows started for it by scheduling
    cfg,        \* the request and the environment: valueList lengths of the
                \* varying parameters, repeatNum, nodes of the exec cluster,
                \* whether cluster calls may fail
    deployment, \* the Deployment row
    dep_job,    \* the DeploymentJob rows, one per robot
    kpod,       \* per robot and pod: the phase the main cluster reports
    kcm,        \* the ConfigMaps of the deployment that are in the cluster
    dq,         \* the Celery queue of the deployment tasks
    dw,         \* per slot: the status check between its load and its save
    post,       \* the deploy request: where it is, what prepare returned
    hist,       \* what has happened: delete requests so far, whether one was
                \* accepted, per robot the all-NotFound checks in a row,
                \* whether the creation of a module pod has failed
    dcfg,       \* the manifest and the environment: robots, module pods per
                \* robot, ConfigMaps, whether cluster calls may fail
    events,     \* DeploymentEvent rows of type DELETE of the deployment
    delreq,     \* per delete request: what it has read and not acted on yet
    drow,       \* the Deployment table: per row its name and active
    dcopy,      \* per holder: the copy of a Deployment row it has loaded
    creq,       \* per client: where its deploy request is
    fleet,      \* the Fleet rows: per name whether it exists, and healthy
    fnode,      \* the FleetNode rows: pairs of a fleet and a cluster node
    clabel,     \* per cluster node: its label fleet.kuberos.io/name
    fdep,       \* per fleet: the active deployments whose fleet it is
    fres,       \* the last response to a fleet or deploy request
    sched,      \* one scheduling pass: the job spec, the next jobs left, the
                \* nodes walked so far, the last of them and what became of it
    kobj,       \* per kind: the objects in the namespace of the executer
    resp,       \* the ExecutionResponse of the executer, and its last call
    cluster,    \* the Cluster row of the exec cluster, and its syncs so far
    round,      \* one scheduling tick for a job group: the nodes of its cluster
                \* in sync order, the request, the pending jobs, and the result
    route,      \* the deployments side by side, oldest first: per deployment
                \* its fleet's main cluster, its status and its job's phase,
                \* and the cluster tasks dispatched: job, operation, cluster
    is_active,  \* BatchJobDeployment.is_active: false once it is soft-deleted
    gmaps       \* the ConfigMap names of the job groups: the rosParamMap and
                \* the required parameters of the manifest, per group its
                \* postfix, the names written and the names its pods refer to

bvars == <<dep, groups, cm, job, pod, queue, w, now, reqs, started, cfg>>

dvars == <<deployment, dep_job, kpod, kcm, dq, dw, post, hist, dcfg, events, delreq>>

rvars == <<drow, dcopy, creq>>

fvars == <<fleet, fnode, clabel, fdep, fres>>

svars == <<sched>>

kvars == <<kobj, resp>>

xvars == <<cluster, round, gmaps, route, is_active>>

ovars == <<fvars, svars, kvars, xvars>>

vars == <<bvars, dvars, rvars, ovars>>

\* ------------------------------------------------------ fleets and nodes
FleetNames == 1..MaxFleets
NoFleet == 0
CNodes == 1..MaxCNodes
\* ClusterNode.shared: default False, set by the inventory manifest
SharedNodes == {}
NoFleetRow == [exists |-> FALSE, healthy |-> FALSE]

\* ------------------------------------------------- scheduling pass inputs
\* CPU in tenths of a core; cpu_allow is a whole number of cores, as in the
\* cluster state the scheduler is given
RESERVED_CPU_REQUEST == 3
CpuTenths == 0..MaxCpu
NodeStates == [cpu : CpuTenths, cpu_allow : {10 * k : k \in 0..(MaxCpu \div 10)}, num_pods : 0..MaxPods]
JobSpecs == [cpu : CpuTenths, numProNode : 0..(MaxPods + 1)]
NoNode == [cpu |-> 0, cpu_allow |-> 0, num_pods |-> 0]
ScheduleInputs ==
    [job_spec : JobSpecs, jobs : 0..MaxNextJobs, seen : {0}, node : {NoNode},
     allocatable : {FALSE}, placed : {FALSE}, over : {FALSE}]
NoSchedule ==
    [job_spec |-> [cpu |-> 0, numProNode |-> 0], jobs |-> 0, seen |-> 0, node |-> NoNode,
     allocatable |-> FALSE, placed |-> FALSE, over |-> FALSE]

\* a name is a sequence of characters; the allowed_chars of a postfix
Letters == {"a", "b"}

starts_with(name, prefix) ==
    Len(name) >= Len(prefix) /\ SubSeq(name, 1, Len(prefix)) = prefix

\* create_job_groups: get_random_string(length, allowed_chars) for the
\* group_postfix, which no constraint keeps unique
Postfixes == [1..PostfixLen -> Letters]

\* the names a manifest may give its rosParamMap items
MapNames == {<<"m">>, <<"a", "b", "-", "m">>}

\* the rosParameters of the module manifests: valueFrom and type
RosParameters == [value_from : MapNames, type : {"yaml", "key-value"}]

MapInputs == [rosParamMap : SUBSET MapNames, required : SUBSET RosParameters,
              postfix : {<<>>}, written : {{}}, referenced : {{}}]

NoMaps == [rosParamMap |-> {}, required |-> {}, postfix |-> <<>>,
           written |-> {}, referenced |-> {}]

\* the deployments that are in progress side by side, each with one job
RouteDeployments ==
    [cluster : 1..MaxClusters, status : {"deploying", "deleting", "running"},
     job_phase : {"pending", "disc_server_success", "request_for_delete", "deploy_success"}]

RouteInputs ==
    [deps : UNION {[1..n -> RouteDeployments] : n \in 0..MaxDeployments}, sent : {{}}]

NoRoute == [deps |-> <<>>, sent |-> {}]

\* ------------------------------------------------- scheduling tick inputs
\* node states and requests around 1.5 cores asked of nodes with 3 cores to
\* allocate and 0.5 or 3.9 available, in tenths of a core; the pending jobs
\* of the group are numbered in the order of their creation
RoundNodes == [cpu : {5, 39}, cpu_allow : {0, 30}, num_pods : 0..MaxPods]
RoundInputs ==
    [nodes : UNION {[1..n -> RoundNodes] : n \in 0..MaxSchedNodes},
     job_spec : [cpu : {15, 28}, numProNode : 0..(MaxPods + 1)],
     pending : 0..MaxPending, done : {FALSE}, next_jobs : {<<>>}, placed : {{}}]
NoRound ==
    [nodes |-> <<>>, job_spec |-> [cpu |-> 15, numProNode |-> 0], pending |-> 0,
     done |-> FALSE, next_jobs |-> <<>>, placed |-> {}]

\* ------------------------------------------------------ cluster objects
Kinds == {"pod", "service", "configmap"}
ObjNames == 1..MaxObjects
NoObjects == [k \in Kinds |-> {}]
NoCall == [kind |-> "none", found |-> FALSE, fault |-> FALSE, before |-> 0]

Min(a, b) == IF a < b THEN a ELSE b

\* (t2 - t1).seconds of Python's timedelta
Seconds(d) == d % DaySeconds

NoJobRow ==
    [exists |-> FALSE, status |-> "PENDING", success |-> TRUE, inited |-> FALSE,
     scheduled_at |-> NoTime, running_at |-> NoTime]

Idle == [kind |-> "idle", j |-> NoJob, snapJ |-> NoJobRow,
         snapD |-> [status |-> "PENDING", scheduling_done_at |-> NoTime,
                    completed_at |-> NoTime,
                    startup_timeout |-> 1, running_timeout |-> 1],
         jobs |-> {}, g |-> 0, ok |-> TRUE]

Enqueue(q, t) == [q EXCEPT ![t] = Min(@ + 1, MaxCopies)]

RECURSIVE EnqueueAll(_, _)
EnqueueAll(q, ts) ==
    IF ts = {} THEN q
    ELSE LET t == CHOOSE x \in ts : TRUE
         IN EnqueueAll(Enqueue(q, t), ts \ {t})

Dequeue(q, t) == [q EXCEPT ![t] = @ - 1]

Ctl == <<"control", NoJob>>

\* a loaded task goes to the first empty slot
Free(i) == w[i] = Idle /\ \A k \in Slots : k < i => w[k] # Idle

\* ------------------------------------------- the deployment's name spaces
Robots == 1..MaxRobots

CheckSlots == 1..MaxChecks

\* pod 0 of a robot is its discovery server, the others its onboard modules
PodIx == 0..MaxModules

ConfigMaps == 1..MaxConfigMaps

Fleet == 1..dcfg.robots

JobPods == 0..dcfg.modules

ModulePods == 1..dcfg.modules

NoRobot == 0

Processing == <<"processing", NoRobot>>

Prepare == <<"prepare", NoRobot>>

DeleteConfigMaps == <<"delete_configmaps", NoRobot>>

DTaskIds ==
    {Processing, Prepare, DeleteConfigMaps}
        \cup ({"disc", "rosmodules", "delete_modules", "check"} \X Robots)

FailurePhases ==
    {"disc_server_failed", "daemon_failed", "rosmodule_failed", "deploy_failed", "delete_failed"}

DIdle == [kind |-> "idle", r |-> NoRobot, job_phase |-> "pending",
          pod_status |-> [k \in PodIx |-> "NotFound"]]

Deleters == 1..MaxDeleters

NoDelete == [st |-> "idle",
             copy |-> [status |-> "deploying", active |-> TRUE,
                       configmaps_created |-> FALSE, config_maps |-> TRUE]]

\* ------------------------------------------- the Deployment table's names
RowIds == 1..MaxRows

Clients == 1..MaxClients

Holders == 1..MaxHolders

\* the names of the manifests, and the name update_status_as_deleted gives row
\* i: the old name with a random suffix
Names == {"name"} \X (1..MaxNames)

Mangled(i) == <<"deleted", i>>

NoName == <<"none", 0>>

NoRow == [exists |-> FALSE, name |-> NoName, active |-> FALSE]

NoCopy == [id |-> 0, name |-> NoName, active |-> FALSE]

\* ------------------------------------------------------------------- Init
\* The state after BatchJobDeploymentViewSet.post: the row exists in PENDING
\* and one controller tick is queued.  For the deployment, the state inside
\* DeployRosModuleViewSet.post after it has created the Deployment row and
\* queued prepare_deployment_env, while it waits for the result.
Init ==
    /\ \E st \in TimeoutChoices, rt \in TimeoutChoices :
          dep = [status |-> "PENDING", scheduling_done_at |-> NoTime,
                 completed_at |-> NoTime,
                 startup_timeout |-> st, running_timeout |-> rt]
    /\ groups = 0
    /\ cm = [g \in Groups |-> "none"]
    /\ job = [j \in Jobs |-> NoJobRow]
    /\ pod = [j \in Jobs |-> [p \in Pods |-> "NotFound"]]
    /\ queue = [t \in TaskIds |-> IF t = Ctl THEN 1 ELSE 0]
    /\ w = [i \in Slots |-> Idle]
    /\ now = 0
    /\ reqs = 0
    /\ started = [j \in Jobs |-> 0]
    /\ cfg \in [value_list : ValueLists, nrep : 0..RepeatNum, nodes : 0..MaxNodes, faults : BOOLEAN]
    /\ deployment = [status |-> "deploying", active |-> TRUE,
                     configmaps_created |-> FALSE, config_maps |-> TRUE]
    /\ dep_job = [r \in Robots |-> [exists |-> FALSE, job_phase |-> "pending"]]
    /\ kpod = [r \in Robots |-> [k \in PodIx |-> "NotFound"]]
    /\ kcm = {}
    /\ dq = [t \in DTaskIds |-> IF t = Prepare THEN 1 ELSE 0]
    /\ dw = [i \in CheckSlots |-> DIdle]
    /\ post = [st |-> "waiting", res |-> "none"]
    /\ hist = [deletes |-> 0, accepted |-> FALSE, nf |-> [r \in Robots |-> 0],
               create_failed |-> FALSE]
    /\ dcfg \in [robots : 1..MaxRobots, modules : 1..MaxModules,
                 configmaps : 0..MaxConfigMaps, faults : BOOLEAN]
    /\ events = 0
    /\ delreq = [c \in Deleters |-> NoDelete]
    /\ drow = [i \in RowIds |-> NoRow]
    /\ dcopy = [h \in Holders |-> NoCopy]
    /\ creq = [c \in Clients |-> [st |-> "idle", name |-> NoName]]
    /\ fleet = [f \in FleetNames |-> NoFleetRow]
    /\ fnode = {}
    /\ clabel = [c \in CNodes |-> NoFleet]
    /\ fdep = [f \in FleetNames |-> 0]
    /\ fres = [n |-> 0, op |-> "none", fleet |-> NoFleet, status |-> "none", reason |-> "none"]
    /\ sched \in ScheduleInputs
    /\ kobj \in [Kinds -> SUBSET ObjNames]
    /\ resp = [status |-> "pending", errors |-> <<>>, raised |-> FALSE, calls |-> 0,
               call |-> NoCall]
    /\ cluster = [is_available |-> FALSE, cluster_status |-> "PENDING",
                  last_sync_time |-> 0, last_error_timestamp |-> 0,
                  sync_errors |-> FALSE, syncs |-> 0, failed |-> FALSE]
    /\ round \in RoundInputs
    /\ gmaps \in MapInputs
    /\ route \in RouteInputs
    /\ is_active = TRUE

\* ------------------------------------------------- BatchJobGroup statistics
PendingJobs(g) == {j \in Jobs : GroupOf(j) = g /\ job[j].exists /\ job[j].status = "PENDING"}

get_pending_jobs_num(g) == Cardinality(PendingJobs(g))

job_statistics(g) ==
    LET all == {j \in Jobs : GroupOf(j) = g /\ job[j].exists}
        completed == Cardinality({j \in all : job[j].status = "COMPLETED"})
        pending == Cardinality({j \in all : job[j].status = "PENDING"})
    IN [pending |-> pending, processing |-> Cardinality(all) - completed - pending]

RECURSIVE SumOver(_, _)
SumOver(f, S) ==
    IF S = {} THEN 0
    ELSE LET x == CHOOSE y \in S : TRUE IN f[x] + SumOver(f, S \ {x})

get_job_statistics ==
    LET gs == 1..groups
    IN [num_pending |-> SumOver([g \in Groups |-> job_statistics(g).pending], gs),
        num_processing |-> SumOver([g \in Groups |-> job_statistics(g).processing], gs)]

get_all_unfinished_jobs == {j \in Jobs : GroupOf(j) <= groups /\ job[j].exists /\ job[j].status # "COMPLETED"}

\* ------------------------------------------ batch_job_deployment_control
chech_timeout_waiting_for_finishing(d, t) ==
    /\ d.status = "WAITING_FOR_FINISHING"
    /\ Seconds(t - d.scheduling_done_at) > d.running_timeout + d.startup_timeout

\* a save that writes the status column alone, over the row as it is now
cleaning_status_only(d) == [dep EXCEPT !.status = "CLEANING"]

\* save() writes every field of the copy d
switch_status_to_cleaning(d) == [d EXCEPT !.status = "CLEANING"]

\* the WAITING_FOR_FINISHING branch on the copy d: the copy after the branch
waiting_for_finishing(d, t) ==
    LET d1 == IF get_job_statistics.num_processing = 0
              THEN switch_status_to_cleaning(d) ELSE d
        d2 == IF d1.scheduling_done_at = NoTime
              THEN [d1 EXCEPT !.scheduling_done_at = t] ELSE d1
    IN IF chech_timeout_waiting_for_finishing(d2, t)
       THEN switch_status_to_cleaning(d2) ELSE d2

\* the tick on the copy d of the deployment, q the queue it adds to
ControlAct(d, q) ==
    CASE d.status = "PENDING" ->
           /\ queue' = Enqueue(q, <<"generate", NoJob>>)
           /\ dep' = dep
      [] d.status = "EXECUTING" ->
           IF get_job_statistics.num_pending = 0
           THEN /\ dep' = [d EXCEPT !.status = "WAITING_FOR_FINISHING",
                                    !.scheduling_done_at = now]
                /\ queue' = Enqueue(q, Ctl)
           ELSE /\ dep' = dep
                /\ queue' = Enqueue(q, <<"sched", NoJob>>)
      [] d.status = "WAITING_FOR_FINISHING" ->
           \* the copy is saved only when a branch changed it
           /\ dep' = IF waiting_for_finishing(d, now) # d
                     THEN waiting_for_finishing(d, now) ELSE dep
           /\ queue' = Enqueue(q, Ctl)
      [] d.status \in {"FINISHED", "CLEANING"} ->
           /\ queue' = Enqueue(q, <<"clean", NoJob>>)
           /\ dep' = dep
      [] OTHER ->
           /\ queue' = q
           /\ dep' = dep

batch_job_deployment_control ==
    /\ queue[Ctl] > 0
    /\ ControlAct(dep, Dequeue(queue, Ctl))
    /\ UNCHANGED <<groups, cm, job, pod, w, now, reqs, started, cfg, dvars, rvars, ovars>>

ControlLoad(i) ==
    /\ Free(i)
    /\ queue[Ctl] > 0
    /\ queue' = Dequeue(queue, Ctl)
    /\ w' = [w EXCEPT ![i] = [Idle EXCEPT !.kind = "control", !.snapD = dep]]
    /\ UNCHANGED <<dep, groups, cm, job, pod, now, reqs, started, cfg, dvars, rvars, ovars>>

ControlSave(i) ==
    /\ w[i].kind = "control"
    /\ ControlAct(w[i].snapD, queue)
    /\ w' = [w EXCEPT ![i] = Idle]
    /\ UNCHANGED <<groups, cm, job, pod, now, reqs, started, cfg, dvars, rvars, ovars>>

\* ------------------------------------------------------ generate_job_queues
\* create_job_groups, then per group: write the ConfigMaps, and on success
\* create the jobs and save EXECUTING, on failure save FAILED; the loop goes
\* on to the next group in both cases.  One step per group.
Outcomes == IF cfg.faults THEN BOOLEAN ELSE {TRUE}

\* values paired position by position, not combined
zip_values(vl) ==
    IF vl = <<>> THEN {<<>>}
    ELSE {[k \in 1..Len(vl) |-> v] :
            v \in 1..(CHOOSE m \in {vl[k] : k \in 1..Len(vl)} :
                          \A k \in 1..Len(vl) : m <= vl[k])}

\* create_job_groups: itertools.product of the valueLists, one group each
RECURSIVE all_combinations(_)
all_combinations(vl) ==
    IF vl = <<>> THEN {<<>>}
    ELSE {<<v>> \o c : v \in 1..Head(vl), c \in all_combinations(Tail(vl))}

create_kuberos_jobs(jb, g) ==
    [j \in Jobs |-> IF GroupOf(j) = g /\ j[2] <= cfg.nrep
                    THEN [NoJobRow EXCEPT !.exists = TRUE]
                    ELSE jb[j]]

GenStart(i) ==
    /\ Free(i)
    /\ queue[<<"generate", NoJob>>] > 0
    /\ queue' = Dequeue(queue, <<"generate", NoJob>>)
    /\ groups' = Cardinality(all_combinations(cfg.value_list))
    /\ w' = [w EXCEPT ![i] = [Idle EXCEPT !.kind = "generate", !.snapD = dep, !.g = 1]]
    /\ UNCHANGED <<dep, cm, job, pod, now, reqs, started, cfg, dvars, rvars, ovars>>

GenGroup(i) ==
    /\ w[i].kind = "generate"
    /\ w[i].g <= groups
    /\ \E ok \in Outcomes :
         LET g == w[i].g
             d == [w[i].snapD EXCEPT !.status = IF ok THEN "EXECUTING" ELSE "FAILED"]
         IN /\ cm' = [cm EXCEPT ![g] = IF ok THEN "written" ELSE "failed"]
            /\ job' = IF ok THEN create_kuberos_jobs(job, g) ELSE job
            /\ dep' = d
            /\ w' = [w EXCEPT ![i] = [@ EXCEPT !.snapD = d, !.g = g + 1]]
    /\ UNCHANGED <<groups, pod, queue, now, reqs, started, cfg, dvars, rvars, ovars>>

GenEnd(i) ==
    /\ w[i].kind = "generate"
    /\ w[i].g > groups
    /\ queue' = Enqueue(queue, Ctl)
    /\ w' = [w EXCEPT ![i] = Idle]
    /\ UNCHANGED <<dep, groups, cm, job, pod, now, reqs, started, cfg, dvars, rvars, ovars>>

\* ---------------------------------------------------- scheduling_batch_jobs
\* All groups run on the first exec cluster, so a tick visits the first group
\* that has pending jobs and skips the others.  get_next_jobs lists up to
\* num_of_allocatable_nodes pending jobs; update_scheduling_result loads
\* each listed job again, marks it SCHEDULED and starts its workflow.
FirstPendingGroup ==
    LET gs == {g \in 1..groups : get_pending_jobs_num(g) > 0}
    IN IF gs = {} THEN 0 ELSE CHOOSE g \in gs : \A h \in gs : g <= h

get_next_jobs(g, num) ==
    IF g = 0 THEN {{}}
    ELSE {S \in SUBSET PendingJobs(g) :
            Cardinality(S) = Min(num, get_pending_jobs_num(g))}

update_scheduled_result(r, t) ==
    [r EXCEPT !.status = "SCHEDULED", !.scheduled_at = t, !.inited = TRUE]

\* num_of_allocatable_nodes is whatever the cluster sync reports
NextJobLists == UNION {get_next_jobs(FirstPendingGroup, num) : num \in 0..cfg.nodes}

update_scheduling_result(S, q) ==
    /\ job' = [j \in Jobs |-> IF j \in S THEN update_scheduled_result(job[j], now)
                              ELSE job[j]]
    /\ started' = [j \in Jobs |-> IF j \in S THEN Min(started[j] + 1, 2) ELSE started[j]]
    /\ queue' = Enqueue(EnqueueAll(q, {<<"jobctl", j>> : j \in S}), Ctl)

scheduling_batch_jobs ==
    /\ queue[<<"sched", NoJob>>] > 0
    /\ \E S \in NextJobLists :
         update_scheduling_result(S, Dequeue(queue, <<"sched", NoJob>>))
    /\ UNCHANGED <<dep, groups, cm, pod, w, now, reqs, cfg, dvars, rvars, ovars>>

SchedLoad(i) ==
    /\ Free(i)
    /\ queue[<<"sched", NoJob>>] > 0
    /\ queue' = Dequeue(queue, <<"sched", NoJob>>)
    /\ \E S \in NextJobLists :
          w' = [w EXCEPT ![i] = [Idle EXCEPT !.kind = "sched", !.jobs = S]]
    /\ UNCHANGED <<dep, groups, cm, job, pod, now, reqs, started, cfg, dvars, rvars, ovars>>

SchedSave(i) ==
    /\ w[i].kind = "sched"
    /\ update_scheduling_result(w[i].jobs, queue)
    /\ w' = [w EXCEPT ![i] = Idle]
    /\ UNCHANGED <<dep, groups, cm, pod, now, reqs, cfg, dvars, rvars, ovars>>

\* ----------------------------------------------------- job_workflow_control
job_workflow_control(j) ==
    /\ queue[<<"jobctl", j>>] > 0
    /\ LET q == Dequeue(queue, <<"jobctl", j>>)
           s == job[j].status
       IN queue' =
            CASE s = "SCHEDULED" -> Enqueue(q, <<"prepare", j>>)
              [] s = "PREPARED" -> Enqueue(q, <<"deploy", j>>)
              [] s \in {"PREPARING", "DEPLOYING", "TERMINATING", "RUNNING"} ->
                    Enqueue(q, <<"check", j>>)
              [] s = "FINISHED" -> Enqueue(q, <<"term", j>>)
              [] OTHER -> q
    /\ UNCHANGED <<dep, groups, cm, job, pod, w, now, reqs, started, cfg, dvars, rvars, ovars>>

\* ------------------------------------------------------ single job tasks
\* create_pod on a name that is not in the cluster
Created(ph) == IF ph = "NotFound" THEN "Pending" ELSE ph

\* delete_pod with grace period: the pod is Terminating until it is gone
Deleted(ph) == IF ph = "NotFound" THEN "NotFound" ELSE "Terminating"

\* KuberosJob.initialize: the entries of pod_status and their pod_type
pod_type(p) == IF p = "disc" THEN "discovery_server" ELSE "ros_module"

PodList(r) == IF r.inited THEN Pods ELSE {}

is_discovery_servers_ready(r, obs) ==
    \A p \in PodList(r) :
        pod_type(p) = "discovery_server" => obs[p] \in {"Running", "Succeeded"}

is_all_rosmodules_ready(r, obs) ==
    \A p \in PodList(r) :
        pod_type(p) \in {"onboard_module", "edge_module", "cloud_module"}
            => obs[p] = "Running"

is_any_rosmodules_failed(r, obs) ==
    \E p \in PodList(r) :
        /\ pod_type(p) \in {"onboard_module", "edge_module", "cloud_module"}
        /\ obs[p] = "Failed"

\* a lifecycle pod that ended, with whatever result, taken as completed
is_lifecycle_module_ended(r, obs) ==
    \E p \in PodList(r) :
        p = lifecycle_rosmodule_name /\ obs[p] \in {"Succeeded", "Failed"}

is_lifecycle_module_completed(r, obs) ==
    \E p \in PodList(r) : p = lifecycle_rosmodule_name /\ obs[p] = "Succeeded"

is_all_modules_not_found(r, obs) ==
    \A p \in PodList(r) : obs[p] = "NotFound"

switch_status_to_failed(r) == [r EXCEPT !.success = FALSE, !.status = "FINISHED"]

StartupTimedOut(r, d, t) == Seconds(t - r.scheduled_at) > d.startup_timeout

RunningTimedOut(r, d, t) == Seconds(t - r.running_at) > d.running_timeout

\* KuberosJob.update_pod_status on the copy r, with the phases obs just read
\* from the cluster, at time t; d carries the job's two timeouts.
update_pod_status(r, obs, d, t) ==
    LET r1 == IF r.status \in {"PREPARING", "DEPLOYING"} /\ StartupTimedOut(r, d, t)
              THEN switch_status_to_failed(r) ELSE r
        r2 == IF r1.status = "PREPARING" /\ is_discovery_servers_ready(r1, obs)
              THEN [r1 EXCEPT !.status = "PREPARED"] ELSE r1
        r3 == IF r2.status = "DEPLOYING" /\ is_all_rosmodules_ready(r2, obs)
              THEN [r2 EXCEPT !.status = "RUNNING", !.running_at = t] ELSE r2
        a  == IF RunningTimedOut(r3, d, t) THEN switch_status_to_failed(r3) ELSE r3
        b  == IF is_lifecycle_module_completed(a, obs)
              THEN [a EXCEPT !.status = "FINISHED"] ELSE a
        c  == IF is_any_rosmodules_failed(b, obs) THEN switch_status_to_failed(b) ELSE b
        r4 == IF r3.status = "RUNNING" THEN c ELSE r3
        r5 == IF r4.status = "TERMINATING" /\ is_all_modules_not_found(r4, obs)
              THEN [r4 EXCEPT !.status = "COMPLETED"] ELSE r4
    IN r5

\* the save half of the four single-job tasks, on the copy r of job j
PreparingSave(j, r, q) ==
    /\ \E ok \in Outcomes :
         /\ job' = [job EXCEPT ![j] = [r EXCEPT !.status = IF ok THEN "PREPARING" ELSE "FAILED"]]
         /\ pod' = IF ok THEN [pod EXCEPT ![j]["disc"] = Created(@)] ELSE pod
    /\ queue' = Enqueue(q, <<"jobctl", j>>)

DeployingSave(j, r, q) ==
    /\ \E ok \in Outcomes :
         /\ job' = [job EXCEPT ![j] = [r EXCEPT !.status = IF ok THEN "DEPLOYING" ELSE "FAILED"]]
         /\ pod' = IF ok
                   THEN [pod EXCEPT ![j] =
                           [p \in Pods |-> IF p = "disc" THEN @[p] ELSE Created(@[p])]]
                   ELSE pod
    /\ queue' = Enqueue(q, <<"jobctl", j>>)

CheckSave(j, r, q) ==
    /\ job' = [job EXCEPT ![j] = update_pod_status(r, pod[j], dep, now)]
    /\ pod' = pod
    /\ queue' = Enqueue(q, <<"jobctl", j>>)

TerminatingSave(j, r, q) ==
    /\ \E ok \in Outcomes :
         /\ job' = [job EXCEPT ![j] = [r EXCEPT !.status = IF ok THEN "TERMINATING" ELSE "FAILED"]]
         /\ pod' = IF ok THEN [pod EXCEPT ![j] = [p \in Pods |-> Deleted(@[p])]] ELSE pod
    /\ queue' = Enqueue(q, <<"jobctl", j>>)

\* single_job_terminating reads scheduled_disc_server['svc'] of the job; on
\* a job that was never scheduled the field is the empty list and the task
\* ends there with a TypeError, before any write.
Crashes(kind, r) == kind = "term" /\ ~r.inited

JobSave(kind, j, r, q) ==
    CASE kind = "prepare" -> PreparingSave(j, r, q)
      [] kind = "deploy" -> DeployingSave(j, r, q)
      [] kind = "check" -> CheckSave(j, r, q)
      [] kind = "term" ->
            IF Crashes(kind, r)
            THEN job' = job /\ pod' = pod /\ queue' = q
            ELSE TerminatingSave(j, r, q)

JobRun(kind, j) ==
    /\ queue[<<kind, j>>] > 0
    /\ JobSave(kind, j, job[j], Dequeue(queue, <<kind, j>>))
    /\ UNCHANGED <<dep, groups, cm, w, now, reqs, started, cfg, dvars, rvars, ovars>>

single_job_preparing(j) == JobRun("prepare", j)

single_job_deploying_rosmodules(j) == JobRun("deploy", j)

check_single_job_status(j) == JobRun("check", j)

single_job_terminating(j) == JobRun("term", j)

\* a single-job task that loads the job and saves it after other steps
JobLoad(i, kind, j) ==
    /\ Free(i)
    /\ queue[<<kind, j>>] > 0
    /\ ~Crashes(kind, job[j])
    /\ queue' = Dequeue(queue, <<kind, j>>)
    /\ w' = [w EXCEPT ![i] = [Idle EXCEPT !.kind = kind, !.j = j, !.snapJ = job[j]]]
    /\ UNCHANGED <<dep, groups, cm, job, pod, now, reqs, started, cfg, dvars, rvars, ovars>>

JobLateSave(i) ==
    /\ w[i].kind \in {"prepare", "deploy", "check", "term"}
    /\ JobSave(w[i].kind, w[i].j, w[i].snapJ, queue)
    /\ w' = [w EXCEPT ![i] = Idle]
    /\ UNCHANGED <<dep, groups, cm, now, reqs, started, cfg, dvars, rvars, ovars>>

\* ------------------------------------------------------- batch_job_cleaning
CleaningAct(d, q) ==
    \E deleted \in Outcomes :
       LET unfinished == get_all_unfinished_jobs
           cleaning_completed == deleted /\ unfinished = {}
       IN /\ cm' = IF deleted
                   THEN [g \in Groups |-> IF g <= groups /\ cm[g] = "written"
                                          THEN "deleted" ELSE cm[g]]
                   ELSE cm
          /\ dep' = IF cleaning_completed
                    THEN [d EXCEPT !.status = "COMPLETED", !.completed_at = now]
                    ELSE dep
          /\ queue' = Enqueue(EnqueueAll(q, {<<"term", j>> : j \in unfinished}), Ctl)

batch_job_cleaning ==
    /\ queue[<<"clean", NoJob>>] > 0
    /\ CleaningAct(dep, Dequeue(queue, <<"clean", NoJob>>))
    /\ UNCHANGED <<groups, job, pod, w, now, reqs, started, cfg, dvars, rvars, ovars>>

CleanLoad(i) ==
    /\ Free(i)
    /\ queue[<<"clean", NoJob>>] > 0
    /\ queue' = Dequeue(queue, <<"clean", NoJob>>)
    /\ w' = [w EXCEPT ![i] = [Idle EXCEPT !.kind = "clean", !.snapD = dep]]
    /\ UNCHANGED <<dep, groups, cm, job, pod, now, reqs, started, cfg, dvars, rvars, ovars>>

CleanSave(i) ==
    /\ w[i].kind = "clean"
    /\ CleaningAct(w[i].snapD, queue)
    /\ w' = [w EXCEPT ![i] = Idle]
    /\ UNCHANGED <<groups, job, pod, now, reqs, started, cfg, dvars, rvars, ovars>>

\* ------------------------------------------- BatchJobDeploymentViewSet
Stop ==
    /\ is_active
    /\ reqs < MaxRequests
    /\ dep.status = "EXECUTING"
    /\ dep' = [dep EXCEPT !.status = "STOPPED"]
    /\ reqs' = reqs + 1
    /\ UNCHANGED <<groups, cm, job, pod, queue, w, now, started, cfg, dvars, rvars, ovars>>

Resume ==
    /\ is_active
    /\ reqs < MaxRequests
    /\ dep.status = "STOPPED"
    /\ dep' = [dep EXCEPT !.status = "EXECUTING"]
    /\ queue' = Enqueue(queue, Ctl)
    /\ reqs' = reqs + 1
    /\ UNCHANGED <<groups, cm, job, pod, w, now, started, cfg, dvars, rvars, ovars>>

\* soft delete of a deployment that is neither PENDING, COMPLETED nor FAILED
Delete ==
    /\ is_active
    /\ reqs < MaxRequests
    /\ dep.status \notin {"PENDING", "COMPLETED", "FAILED"}
    /\ dep' = switch_status_to_cleaning(dep)
    /\ queue' = Enqueue(queue, Ctl)
    /\ reqs' = reqs + 1
    /\ UNCHANGED <<groups, cm, job, pod, w, now, started, cfg, dvars, rvars, ovars>>

\* soft delete of a deployment that is PENDING, COMPLETED or FAILED
SoftDelete ==
    /\ is_active
    /\ dep.status \in {"PENDING", "COMPLETED", "FAILED"}
    /\ is_active' = FALSE
    /\ UNCHANGED <<bvars, dvars, rvars, fvars, svars, kvars, cluster, round, gmaps, route>>

\* A request that reads the row and saves its copy after other steps.  The
\* view decides on the status it read; a rejected request writes nothing.
RequestLoad(i) ==
    /\ is_active
    /\ Free(i)
    /\ reqs < MaxRequests
    /\ \E cmd \in {"stop", "resume", "delete"} :
          w' = [w EXCEPT ![i] = [Idle EXCEPT !.kind = cmd, !.snapD = dep]]
    /\ reqs' = reqs + 1
    /\ UNCHANGED <<dep, groups, cm, job, pod, queue, now, started, cfg, dvars, rvars, ovars>>

RequestSave(i) ==
    /\ w[i].kind \in {"stop", "resume", "delete"}
    /\ LET d == w[i].snapD
       IN CASE w[i].kind = "stop" /\ d.status = "EXECUTING" ->
                 /\ dep' = [d EXCEPT !.status = "STOPPED"]
                 /\ queue' = queue
            [] w[i].kind = "resume" /\ d.status = "STOPPED" ->
                 /\ dep' = [d EXCEPT !.status = "EXECUTING"]
                 /\ queue' = Enqueue(queue, Ctl)
            [] w[i].kind = "delete" /\ d.status \notin {"PENDING", "COMPLETED", "FAILED"} ->
                 /\ dep' = switch_status_to_cleaning(d)
                 /\ queue' = Enqueue(queue, Ctl)
            [] OTHER ->
                 /\ dep' = dep
                 /\ queue' = queue
    /\ w' = [w EXCEPT ![i] = Idle]
    /\ UNCHANGED <<groups, cm, job, pod, now, reqs, started, cfg, dvars, rvars, ovars>>

\* ------------------------------------------------------------- the cluster
PodStep(j, p) ==
    /\ \/ pod[j][p] = "Pending" /\ pod' = [pod EXCEPT ![j][p] = "Running"]
       \/ pod[j][p] = "Running" /\ \E ph \in {"Succeeded", "Failed"} :
                                       pod' = [pod EXCEPT ![j][p] = ph]
       \/ pod[j][p] = "Terminating" /\ pod' = [pod EXCEPT ![j][p] = "NotFound"]
    /\ UNCHANGED <<dep, groups, cm, job, queue, w, now, reqs, started, cfg, dvars, rvars, ovars>>

Tick ==
    /\ \E d \in ClockSteps :
         /\ now + d <= MaxDays * DaySeconds + MaxSec
         /\ Seconds(now + d) <= MaxSec
         /\ now' = now + d
    /\ UNCHANGED <<dep, groups, cm, job, pod, queue, w, reqs, started, cfg, dvars, rvars, ovars>>

\* =========================================================== deployments
\* ------------------------------------------- Deployment and DeploymentJob
DFree(i) == dw[i] = DIdle /\ \A k \in CheckSlots : k < i => dw[k] # DIdle

DOutcomes == IF dcfg.faults THEN BOOLEAN ELSE {TRUE}

JobSet == {r \in Robots : dep_job[r].exists}

\* ------------------------------------------------------------ ConfigMaps
\* deploy_configmaps creates the ConfigMaps in order and returns at the first
\* that fails: the response is set to success after each ConfigMap created,
\* so for an empty list it is still the pending of a new ExecutionResponse;
\* n: how many the cluster accepts
deploy_configmaps(n) ==
    IF n < dcfg.configmaps THEN "failed"
    ELSE IF dcfg.configmaps = 0 THEN "pending"
    ELSE "success"

\* the task marks the row on success only
prepare_deployment_env ==
    /\ dq[Prepare] > 0
    /\ \E n \in IF dcfg.faults THEN 0..dcfg.configmaps ELSE {dcfg.configmaps} :
          /\ kcm' = kcm \cup 1..n
          /\ deployment' = IF deploy_configmaps(n) = "success"
                           THEN [deployment EXCEPT !.configmaps_created = TRUE]
                           ELSE deployment
          /\ post' = [post EXCEPT !.res = deploy_configmaps(n)]
    /\ dq' = Dequeue(dq, Prepare)
    /\ UNCHANGED <<dep_job, kpod, dw, hist, dcfg, events, delreq, bvars, rvars, ovars>>

\* KuberosExecuter.delete_deployed_configmaps on the list has (TRUE: the
\* scheduled list, FALSE: the {} of a row already marked): nothing to delete
\* is a success
DeleteOutcomes(has) == IF has /\ dcfg.configmaps > 0 THEN DOutcomes ELSE {TRUE}

update_deleted_configmaps(d) ==
    [d EXCEPT !.config_maps = FALSE, !.configmaps_created = FALSE]

\* the task queued by a deploy request whose ConfigMaps failed: it is given
\* the whole list
delete_deployed_configmaps ==
    /\ dq[DeleteConfigMaps] > 0
    /\ \E ok \in DeleteOutcomes(TRUE) :
          IF ok THEN /\ kcm' = {}
                     /\ deployment' = update_deleted_configmaps(deployment)
                ELSE UNCHANGED <<kcm, deployment>>
    /\ dq' = Dequeue(dq, DeleteConfigMaps)
    /\ UNCHANGED <<dep_job, kpod, dw, post, hist, dcfg, events, delreq, bvars, rvars, ovars>>

\* ---------------------------------------------- DeployRosModuleViewSet.post
\* prepare_task.get returned within its two seconds
PostResult ==
    /\ post.st = "waiting"
    /\ post.res # "none"
    /\ IF post.res = "success"
       THEN /\ dep_job' = [r \in Robots |->
                              IF r \in Fleet
                              THEN [exists |-> TRUE, job_phase |-> "pending"]
                              ELSE dep_job[r]]
            /\ dq' = Enqueue(dq, Processing)
            /\ post' = [post EXCEPT !.st = "accepted"]
       ELSE /\ dep_job' = dep_job
            /\ dq' = Enqueue(dq, DeleteConfigMaps)
            /\ post' = [post EXCEPT !.st = "failed"]
    /\ UNCHANGED <<deployment, kpod, kcm, dw, hist, dcfg, events, delreq, bvars, rvars, ovars>>

\* prepare_task.get timed out: the request answers FailedToCreateConfigMap
\* and the prepare task is left to run
PostTimeout ==
    /\ post.st = "waiting"
    /\ post.res = "none"
    /\ post' = [post EXCEPT !.st = "timeout"]
    /\ UNCHANGED <<deployment, dep_job, kpod, kcm, dq, dw, hist, dcfg, events, delreq, bvars, rvars, ovars>>

\* ------------------------------------------------- Deployment aggregation
\* the failure branch of update_entire_deployment_status
mark_failed(d) == [d EXCEPT !.status = "failed", !.active = TRUE]

update_status_as_deleted(d) == [d EXCEPT !.active = FALSE, !.status = "deleted"]

\* phases: the job_phase of every DeploymentJob row of the deployment
update_entire_deployment_status(d, phases) ==
    IF \A r \in DOMAIN phases : phases[r] = "delete_success"
    THEN [d EXCEPT !.active = FALSE, !.status = "deleted"]
    ELSE IF \A r \in DOMAIN phases : phases[r] = "deploy_success"
    THEN [d EXCEPT !.status = "running", !.active = TRUE]
    ELSE IF \E r \in DOMAIN phases : phases[r] \in FailurePhases
    THEN mark_failed(d)
    ELSE d

is_cluster_cleaned(d) == ~d.configmaps_created /\ JobSet = {}

\* -------------------------------------------------------- DeploymentJob
dj_is_discovery_servers_ready(o) == o[0] \in {"Running", "Succeeded"}

dj_is_all_rosmodules_ready(o) == \A k \in ModulePods : o[k] = "Running"

dj_is_any_rosmodules_failed(o) == \E k \in ModulePods : o[k] = "Failed"

dj_is_all_modules_not_found(o) == \A k \in JobPods : o[k] = "NotFound"

\* DeploymentJob.update_pod_status on a copy read in phase ph, with the pod statuses o:
\* the phase the copy is saved with, the action returned and whether
\* update_entire_deployment_status is called
dj_update_pod_status(ph, o) ==
    CASE ph = "delete_in_progress" ->
           IF dj_is_all_modules_not_found(o)
           THEN [job_phase |-> "delete_success", action |-> "finished", entire |-> TRUE]
           ELSE [job_phase |-> ph, action |-> "check", entire |-> FALSE]
      [] ph = "disc_server_in_progress" ->
           IF dj_is_discovery_servers_ready(o)
           THEN [job_phase |-> "disc_server_success", action |-> "next", entire |-> FALSE]
           ELSE [job_phase |-> ph, action |-> "check", entire |-> FALSE]
      [] ph = "rosmodule_in_progress" ->
           IF dj_is_all_rosmodules_ready(o)
           THEN [job_phase |-> "deploy_success", action |-> "finished", entire |-> TRUE]
           ELSE IF dj_is_any_rosmodules_failed(o)
           THEN [job_phase |-> "deploy_failed", action |-> "finished", entire |-> TRUE]
           ELSE [job_phase |-> ph, action |-> "check", entire |-> FALSE]
      [] OTHER -> [job_phase |-> ph, action |-> "finished", entire |-> FALSE]

\* ------------------------------------------- check_deployment_job_status
\* the part of the task after the pod statuses o are known, on the copy of
\* job r read in phase ph; q is the queue it adds to
CheckAct(r, ph, o, q) ==
    LET res == dj_update_pod_status(ph, o)
        phases == [x \in JobSet |-> IF x = r THEN res.job_phase ELSE dep_job[x].job_phase]
    IN /\ dep_job' = [dep_job EXCEPT ![r].job_phase = res.job_phase]
       /\ deployment' = IF res.entire
                        THEN update_entire_deployment_status(deployment, phases)
                        ELSE deployment
       /\ dq' = CASE res.action = "next" -> Enqueue(q, Processing)
                  [] res.action = "check" -> Enqueue(q, <<"check", r>>)
                  [] OTHER -> q
       /\ hist' = [hist EXCEPT !.nf[r] = IF dj_is_all_modules_not_found(o)
                                         THEN Min(@ + 1, 2) ELSE 0]

check_deployment_job_status(r) ==
    /\ dq[<<"check", r>>] > 0
    /\ dep_job[r].exists
    /\ CheckAct(r, dep_job[r].job_phase, kpod[r], Dequeue(dq, <<"check", r>>))
    /\ UNCHANGED <<kpod, kcm, dw, post, dcfg, events, delreq, bvars, rvars, ovars>>

\* the task reads the job row and asks the cluster for the pod statuses
DepCheckLoad(i, r) ==
    /\ DFree(i)
    /\ dq[<<"check", r>>] > 0
    /\ dep_job[r].exists
    /\ dq' = Dequeue(dq, <<"check", r>>)
    /\ dw' = [dw EXCEPT ![i] = [kind |-> "check", r |-> r,
                                job_phase |-> dep_job[r].job_phase,
                                pod_status |-> kpod[r]]]
    /\ UNCHANGED <<deployment, dep_job, kpod, kcm, post, hist, dcfg, events, delreq, bvars, rvars, ovars>>

\* and saves its copy later
DepCheckSave(i) ==
    /\ dw[i].kind = "check"
    /\ CheckAct(dw[i].r, dw[i].job_phase, dw[i].pod_status, dq)
    /\ dw' = [dw EXCEPT ![i] = DIdle]
    /\ UNCHANGED <<kpod, kcm, post, dcfg, events, delreq, bvars, rvars, ovars>>

\* ---------------------------------------------- processing_deployment_job
\* The task is bound, so its first parameter receives the task and never a
\* list: it always takes the jobs of the deployments in deploying or deleting.
NextPhase(ph) ==
    CASE ph = "pending" -> "disc_server_in_progress"
      [] ph = "disc_server_success" -> "rosmodule_in_progress"
      [] ph = "request_for_delete" -> "delete_in_progress"
      [] OTHER -> ph

Dispatched(r, ph) ==
    CASE ph = "pending" -> {<<"disc", r>>}
      [] ph = "disc_server_success" -> {<<"rosmodules", r>>}
      [] ph = "request_for_delete" -> {<<"delete_modules", r>>}
      [] OTHER -> {}

CheckedPhases ==
    {"disc_server_in_progress", "daemonset_in_progress", "rosmodule_in_progress",
     "delete_in_progress"}

\* late: the jobs whose last check is more than 600 seconds old
processing_deployment_job ==
    /\ dq[Processing] > 0
    /\ IF deployment.status \in {"deploying", "deleting"}
       THEN \E late \in SUBSET JobSet :
               /\ dep_job' = [r \in Robots |->
                                 IF r \in JobSet
                                 THEN [dep_job[r] EXCEPT !.job_phase = NextPhase(@)]
                                 ELSE dep_job[r]]
               /\ dq' = EnqueueAll(Dequeue(dq, Processing),
                           UNION {Dispatched(r, dep_job[r].job_phase) : r \in JobSet}
                           \cup {<<"check", r>> : r \in
                                   {x \in JobSet : NextPhase(dep_job[x].job_phase) \in CheckedPhases}
                                   \cup late})
       ELSE /\ dep_job' = dep_job
            /\ dq' = Dequeue(dq, Processing)
    /\ UNCHANGED <<deployment, kpod, kcm, dw, post, hist, dcfg, events, delreq, bvars, rvars, ovars>>

\* --------------------------------------------------- the cluster tasks
deploy_discovery_server(r) ==
    /\ dq[<<"disc", r>>] > 0
    /\ dq' = Dequeue(dq, <<"disc", r>>)
    /\ \E ok \in DOutcomes :
          kpod' = IF ok /\ kpod[r][0] = "NotFound"
                  THEN [kpod EXCEPT ![r][0] = "Pending"]
                  ELSE kpod
    /\ UNCHANGED <<deployment, dep_job, kcm, dw, post, hist, dcfg, events, delreq, bvars, rvars, ovars>>

\* KuberosExecuter.deploy_rosmodules creates the pods in order and returns at
\* the first create_pod that fails; n: how many the cluster would accept
CreatedPods(r, n) ==
    {k \in ModulePods : k <= n /\ \A x \in ModulePods : x <= k => kpod[r][x] = "NotFound"}

deploy_rosmodules(r) ==
    /\ dq[<<"rosmodules", r>>] > 0
    /\ dq' = Dequeue(dq, <<"rosmodules", r>>)
    /\ \E n \in IF dcfg.faults THEN 0..dcfg.modules ELSE {dcfg.modules} :
          /\ kpod' = [kpod EXCEPT ![r] = [k \in PodIx |->
                         IF k \in CreatedPods(r, n) THEN "Pending" ELSE kpod[r][k]]]
          /\ hist' = [hist EXCEPT !.create_failed = @ \/ n < dcfg.modules]
    /\ UNCHANGED <<deployment, dep_job, kcm, dw, post, dcfg, events, delreq, bvars, rvars, ovars>>

delete_deployed_modules(r) ==
    /\ dq[<<"delete_modules", r>>] > 0
    /\ dq' = Dequeue(dq, <<"delete_modules", r>>)
    /\ kpod' = [kpod EXCEPT ![r] = [k \in PodIx |->
                   IF k \in JobPods /\ kpod[r][k] # "NotFound"
                   THEN "Terminating" ELSE kpod[r][k]]]
    /\ UNCHANGED <<deployment, dep_job, kcm, dw, post, hist, dcfg, events, delreq, bvars, rvars, ovars>>

\* a pod starts, a pod may fail, a deleted pod is gone after its grace period
DeployPodStep(r, k) ==
    /\ r \in Fleet /\ k \in JobPods
    /\ \/ kpod[r][k] = "Pending" /\ kpod' = [kpod EXCEPT ![r][k] = "Running"]
       \/ /\ kpod[r][k] \in {"Pending", "Running"} /\ dcfg.faults
          /\ kpod' = [kpod EXCEPT ![r][k] = "Failed"]
       \/ kpod[r][k] = "Terminating" /\ kpod' = [kpod EXCEPT ![r][k] = "NotFound"]
    /\ UNCHANGED <<deployment, dep_job, kcm, dq, dw, post, hist, dcfg, events, delreq, bvars, rvars, ovars>>

\* -------------------------------------------- DeployRosModuleViewSet.delete
\* The view saves its copy as deleting, deletes the ConfigMaps of the copy's
\* list in the request (the task marks a fresh copy of the row), decides
\* is_cluster_cleaned on its own copy, and marks every job.  The client
\* sends it after the deploy request has answered.
DeleteAct(d, found) ==
    /\ events' = IF found THEN events ELSE events + 1
    /\ \E ok \in DeleteOutcomes(d.config_maps) :
       LET copy == [d EXCEPT !.status = "deleting"]
       IN IF ~ok
          THEN /\ deployment' = copy
               /\ hist' = [hist EXCEPT !.deletes = @ + 1]
               /\ UNCHANGED <<dep_job, kcm, dq>>
          ELSE /\ kcm' = IF copy.config_maps THEN {} ELSE kcm
               /\ IF is_cluster_cleaned(copy)
                  THEN /\ deployment' = update_status_as_deleted(copy)
                       /\ hist' = [hist EXCEPT !.deletes = @ + 1]
                       /\ UNCHANGED <<dep_job, dq>>
                  ELSE /\ deployment' = update_deleted_configmaps(copy)
                       /\ dep_job' = [r \in Robots |->
                                         IF r \in JobSet
                                         THEN [dep_job[r] EXCEPT !.job_phase = "request_for_delete"]
                                         ELSE dep_job[r]]
                       /\ dq' = Enqueue(dq, Processing)
                       /\ hist' = [hist EXCEPT !.deletes = @ + 1, !.accepted = TRUE]

\* requests that have read the row and the DELETE event and not gone on yet
Deleting == {c \in Deleters : delreq[c].st # "idle"}

\* the whole request in one step
DeployDelete ==
    /\ post.st # "waiting"
    /\ deployment.active
    /\ hist.deletes + Cardinality(Deleting) < MaxRequests
    /\ events <= 1
    /\ DeleteAct(deployment, events = 1)
    /\ UNCHANGED <<kpod, dw, post, dcfg, delreq, bvars, rvars, ovars>>

\* the request up to DeploymentEvent.objects.get: it has its copy of the row
\* and knows whether a DELETE event exists
DeleteEventGet(c) ==
    /\ post.st # "waiting"
    /\ deployment.active
    /\ hist.deletes + Cardinality(Deleting) < MaxRequests
    /\ events <= 1
    /\ delreq[c].st = "idle"
    /\ delreq' = [delreq EXCEPT ![c] = [st |-> IF events = 1 THEN "found" ELSE "missing",
                                         copy |-> deployment]]
    /\ UNCHANGED <<deployment, dep_job, kpod, kcm, dq, dw, post, hist, dcfg,
                   events, bvars, rvars, ovars>>

\* and the rest of it, from DeploymentEvent.objects.create on
DeleteEventSave(c) ==
    /\ delreq[c].st # "idle"
    /\ DeleteAct(delreq[c].copy, delreq[c].st = "found")
    /\ delreq' = [delreq EXCEPT ![c] = NoDelete]
    /\ UNCHANGED <<kpod, dw, post, dcfg, bvars, rvars, ovars>>

\* DeploymentEvent.objects.get finds two DELETE events: MultipleObjectsReturned
\* ends the request
DeleteEventError ==
    /\ post.st # "waiting"
    /\ deployment.active
    /\ hist.deletes + Cardinality(Deleting) < MaxRequests
    /\ events > 1
    /\ hist' = [hist EXCEPT !.deletes = @ + 1]
    /\ UNCHANGED <<deployment, dep_job, kpod, kcm, dq, dw, post, dcfg,
                   events, delreq, bvars, rvars, ovars>>

DeployTasks ==
    \/ prepare_deployment_env
    \/ delete_deployed_configmaps
    \/ PostResult
    \/ PostTimeout
    \/ processing_deployment_job
    \/ \E r \in Robots : deploy_discovery_server(r)
    \/ \E r \in Robots : deploy_rosmodules(r)
    \/ \E r \in Robots : delete_deployed_modules(r)
    \/ \E r \in Robots : check_deployment_job_status(r)
    \/ \E r \in Robots, k \in PodIx : DeployPodStep(r, k)

DeployInterleaved ==
    \/ \E i \in CheckSlots, r \in Robots : DepCheckLoad(i, r)
    \/ \E i \in CheckSlots : DepCheckSave(i)

DeleteInterleaved ==
    \/ \E c \in Deleters : DeleteEventGet(c)
    \/ \E c \in Deleters : DeleteEventSave(c)
    \/ DeleteEventError

\* ================================================== the Deployment table
\* Meta.constraints: UniqueConstraint(fields=['name'], condition=Q(active=True));
\* the database refuses a row that would break it (IntegrityError).
\* rows: the table, i: the row written, name and active: its new values
no_constraint(rows, i, name, active) == TRUE

unique_active_name(rows, i, name, active) ==
    active => \A j \in RowIds \ {i} :
                 rows[j].exists /\ rows[j].active => rows[j].name # name

\* Model.save and objects.create: the row is written unless the constraint
\* refuses it
save_row(rows, i, name, active) ==
    IF unique_active_name(rows, i, name, active)
    THEN [rows EXCEPT ![i] = [exists |-> TRUE, name |-> name, active |-> active]]
    ELSE rows

\* DeployRosModuleViewSet.post: Deployment.objects.filter(name, active=True)
CreateCheck(c, n) ==
    /\ creq[c].st = "idle"
    /\ creq' = [creq EXCEPT ![c] =
                   IF \E i \in RowIds : drow[i].exists /\ drow[i].active /\ drow[i].name = n
                   THEN [st |-> "DeploymentAlreadyExists", name |-> n]
                   ELSE [st |-> "checked", name |-> n]]
    /\ UNCHANGED <<drow, dcopy, bvars, dvars, ovars>>

\* DeployRosModuleViewSet.post: Deployment.objects.create, after the fleet
\* checks and the scheduling
CreateInsert(c) ==
    /\ creq[c].st = "checked"
    /\ \E i \in RowIds :
          /\ ~drow[i].exists
          /\ \A k \in RowIds : k < i => drow[k].exists
          /\ drow' = save_row(drow, i, creq[c].name, TRUE)
          /\ creq' = [creq EXCEPT ![c].st =
                         IF drow'[i].exists THEN "created" ELSE "IntegrityError"]
    /\ UNCHANGED <<dcopy, bvars, dvars, ovars>>

\* Deployment.objects.get in a request or a task
LoadRow(h, i) ==
    /\ dcopy[h] = NoCopy
    /\ drow[i].exists
    /\ dcopy' = [dcopy EXCEPT ![h] = [id |-> i, name |-> drow[i].name,
                                      active |-> drow[i].active]]
    /\ UNCHANGED <<drow, creq, bvars, dvars, ovars>>

\* save() of the copy: every field is written.  kind "status": only the
\* status was changed on the copy (deleting, configmaps_created); "deleted":
\* update_status_as_deleted; "active": the running and failed branches of
\* update_entire_deployment_status, which set active.  A refused save ends
\* the holder's request or task.
SaveRow(h, kind) ==
    /\ dcopy[h] # NoCopy
    /\ LET i == dcopy[h].id
           name == IF kind = "deleted" THEN Mangled(i) ELSE dcopy[h].name
           active == CASE kind = "deleted" -> FALSE
                       [] kind = "active" -> TRUE
                       [] OTHER -> dcopy[h].active
       IN /\ drow' = save_row(drow, i, name, active)
          /\ dcopy' = [dcopy EXCEPT ![h] =
                          IF unique_active_name(drow, i, name, active)
                          THEN [id |-> i, name |-> name, active |-> active]
                          ELSE NoCopy]
    /\ UNCHANGED <<creq, bvars, dvars, ovars>>

\* the request or the task ends
DropRow(h) ==
    /\ dcopy[h] # NoCopy
    /\ dcopy' = [dcopy EXCEPT ![h] = NoCopy]
    /\ UNCHANGED <<drow, creq, bvars, dvars, ovars>>

NameActions ==
    \/ \E c \in Clients, n \in Names : CreateCheck(c, n)
    \/ \E c \in Clients : CreateInsert(c)
    \/ \E h \in Holders, i \in RowIds : LoadRow(h, i)
    \/ \E h \in Holders, kind \in {"status", "deleted", "active"} : SaveRow(h, kind)
    \/ \E h \in Holders : DropRow(h)

\* ============================================================== fleets
\* FleetNode.status: default 'deployable'; no code assigns another value
fleet_node_status(f, c) == "deployable"

\* Fleet.fleet_node_set of fleet f, as cluster nodes
fleet_node_set(f) == {c \in CNodes : <<f, c>> \in fnode}

\* ClusterNode.cluster_node_set of cluster node c, as fleets
cluster_node_set(c) == {f \in FleetNames : <<f, c>> \in fnode}

\* ClusterNode.is_available: the nodes are onboard computers registered with
\* an inventory manifest, none of them shared
is_available(c) == cluster_node_set(c) = {} \/ c \in SharedNodes

\* Cluster.find_c_node_by_robot_name over the robots of a fleet manifest:
\* each robot is the cluster node that carries its name
find_c_nodes(robots) == {c \in CNodes : c \in robots}

\* one more response
Answer(op, f, status, reason) ==
    [n |-> fres.n + 1, op |-> op, fleet |-> f, status |-> status, reason |-> reason]

\* ManageFleetViewSet.create: hostnames is empty, so that the availability
\* check passes; a FleetNode is created for every cluster node found, and the
\* node is labelled
ManageCreate(f, robots) ==
    /\ fres.n < MaxFleetRequests
    /\ IF fleet[f].exists
       THEN /\ fres' = Answer("create", f, "rejected", "FleetAlreadyExists")
            /\ UNCHANGED <<fleet, fnode, clabel>>
       ELSE /\ fleet' = [fleet EXCEPT ![f] = [exists |-> TRUE, healthy |-> FALSE]]
            /\ fnode' = fnode \cup ({f} \X find_c_nodes(robots))
            /\ clabel' = [c \in CNodes |-> IF c \in find_c_nodes(robots) THEN f ELSE clabel[c]]
            /\ fres' = Answer("create", f, "accepted", "none")
    /\ UNCHANGED <<fdep, bvars, dvars, rvars, svars, kvars, xvars>>

\* FleetViewSet.create: validate_create_request refuses a node that is not
\* available; FleetSerializer.create then hands the serializer's source names
\* to Fleet.objects.create, which raises before a row is written
FleetViewCreate(f, nodes) ==
    /\ fres.n < MaxFleetRequests
    /\ fres' = IF \E c \in nodes : ~is_available(c)
               THEN Answer("create", f, "error", "400")
               ELSE Answer("create", f, "500", "TypeError")
    /\ UNCHANGED <<fleet, fnode, clabel, fdep, bvars, dvars, rvars, svars, kvars, xvars>>

\* ManageFleetViewSet.patch, operation 'add': ClusterNode.objects.get(name=...)
\* names a field the model does not have and raises before a row is written
ManagePatchAdd(f, nodes) ==
    /\ fres.n < MaxFleetRequests
    /\ nodes # {}
    /\ fres' = IF fleet[f].exists
               THEN Answer("add", f, "500", "FieldError")
               ELSE Answer("add", f, "failed", "none")
    /\ UNCHANGED <<fleet, fnode, clabel, fdep, bvars, dvars, rvars, svars, kvars, xvars>>

\* ManageFleetViewSet.retrieve: FleetSerializer reads is_entire_fleet_healthy,
\* which sets healthy and saves
ManageRetrieve(f) ==
    /\ fres.n < MaxFleetRequests
    /\ IF fleet[f].exists
       THEN /\ fleet' = [fleet EXCEPT ![f].healthy = TRUE]
            /\ fres' = Answer("retrieve", f, "success", "none")
       ELSE /\ fres' = Answer("retrieve", f, "failed", "FleetDoesNotExist")
            /\ UNCHANGED fleet
    /\ UNCHANGED <<fnode, clabel, fdep, bvars, dvars, rvars, svars, kvars, xvars>>

\* Fleet.safe_delete: rejected when a fleet node is deploying, releasing or
\* active; otherwise clean_cluster_labels and delete, which cascades to the
\* fleet nodes and sets Deployment.fleet to NULL
safe_delete(f) ==
    IF \E c \in fleet_node_set(f) : fleet_node_status(f, c) \in {"deploying", "releasing", "active"}
    THEN /\ fres' = Answer("delete", f, "rejected", "FleetInUse")
         /\ UNCHANGED <<fleet, fnode, clabel, fdep>>
    ELSE /\ clabel' = [c \in CNodes |-> IF c \in fleet_node_set(f) THEN NoFleet ELSE clabel[c]]
         /\ fleet' = [fleet EXCEPT ![f] = NoFleetRow]
         /\ fnode' = {p \in fnode : p[1] # f}
         /\ fdep' = [fdep EXCEPT ![f] = 0]
         /\ fres' = Answer("delete", f, "accepted", "none")

\* ManageFleetViewSet.delete
ManageDelete(f) ==
    /\ fres.n < MaxFleetRequests
    /\ IF fleet[f].exists
       THEN safe_delete(f)
       ELSE /\ fres' = Answer("delete", f, "failed", "FleetDoesNotExist")
            /\ UNCHANGED <<fleet, fnode, clabel, fdep>>
    /\ UNCHANGED <<bvars, dvars, rvars, svars, kvars, xvars>>

\* SchedulingMsgs.add_msg: the message is appended only when its type is none
\* of debug, info, warning, error
add_msg(msgs, msg_type) ==
    IF msg_type \notin {"debug", "info", "warning", "error"}
    THEN Append(msgs, msg_type)
    ELSE msgs

\* SchedulingMsgs.contains_error
contains_error(msgs) == \E i \in 1..Len(msgs) : msgs[i] = "error"

\* Fleet.is_fleet_deployable: healthy and with a node
is_fleet_deployable_row(f) == fleet[f].healthy /\ fleet_node_set(f) # {}

\* FleetState.is_fleet_deployable over Fleet.get_fleet_state_for_scheduling:
\* 'active' is Fleet.healthy
is_fleet_deployable(f) ==
    fleet[f].healthy /\ is_fleet_deployable_row(f) /\ fleet_node_set(f) # {}

\* KuberosScheduler.check_target_robots: "ok" or "failed", or the exception
\* that FleetState.check_robot_names raises when it formats its message with
\* the attribute robot_name_list, which FleetState does not have
check_target_robots(f, targets) ==
    LET m1 == IF ~is_fleet_deployable(f) THEN add_msg(<<>>, "error") ELSE <<>>
    IN IF targets # {} /\ ~(targets \subseteq fleet_node_set(f))
       THEN "AttributeError"
       ELSE IF contains_error(m1) THEN "failed" ELSE "ok"

\* DeployRosModuleViewSet.post from the fleet lookup to Deployment.objects.create;
\* init_robot_entities takes the first computer group of the fleet, and a
\* fleet without nodes has none
DeployToFleet(f, targets) ==
    /\ fres.n < MaxFleetRequests
    /\ fdep[f] < MaxFleetDeps
    /\ IF ~fleet[f].exists
       THEN /\ fres' = Answer("deploy", f, "failed", "FleetDoesNotExist")
            /\ UNCHANGED fdep
       ELSE IF check_target_robots(f, targets) = "AttributeError"
       THEN /\ fres' = Answer("deploy", f, "500", "AttributeError")
            /\ UNCHANGED fdep
       ELSE IF check_target_robots(f, targets) = "failed"
       THEN /\ fres' = Answer("deploy", f, "failed", "FleetResourceCheckFailed")
            /\ UNCHANGED fdep
       ELSE IF fleet_node_set(f) = {}
       THEN /\ fres' = Answer("deploy", f, "500", "IndexError")
            /\ UNCHANGED fdep
       ELSE /\ fdep' = [fdep EXCEPT ![f] = @ + 1]
            /\ fres' = Answer("deploy", f, "accepted", "none")
    /\ UNCHANGED <<fleet, fnode, clabel, bvars, dvars, rvars, svars, kvars, xvars>>

\* the deployment of fleet f has been deleted: it is no longer active
DeploymentDeleted(f) ==
    /\ fdep[f] > 0
    /\ fdep' = [fdep EXCEPT ![f] = @ - 1]
    /\ UNCHANGED <<fleet, fnode, clabel, fres, bvars, dvars, rvars, svars, kvars, xvars>>

\* ==================================================== the job scheduler
\* JobScheduler.check_node_allocability without the reserved CPU
check_node_allocability_unreserved(node, job_spec) ==
    IF job_spec.numProNode > 0 /\ job_spec.numProNode <= node.num_pods THEN FALSE
    ELSE IF job_spec.cpu > node.cpu THEN FALSE
    ELSE TRUE

\* JobScheduler.check_node_allocability
check_node_allocability(node, job_spec) ==
    IF job_spec.numProNode > 0 /\ job_spec.numProNode <= node.num_pods THEN FALSE
    ELSE IF job_spec.cpu > node.cpu THEN FALSE
    ELSE IF job_spec.cpu > node.cpu_allow - RESERVED_CPU_REQUEST THEN FALSE
    ELSE TRUE

\* JobScheduler.schedule, one turn of its loop over the nodes of the cluster
\* state: a node that is not allocatable is skipped, the loop ends when no
\* job is left, and every other node takes one job
ScheduleNode(node) ==
    LET allocatable == check_node_allocability(node, sched.job_spec)
    IN /\ sched.seen < MaxSchedNodes
       /\ ~sched.over
       /\ sched' = [sched EXCEPT
                      !.seen = @ + 1,
                      !.node = node,
                      !.allocatable = allocatable,
                      !.over = allocatable /\ sched.jobs = 0,
                      !.placed = allocatable /\ sched.jobs > 0,
                      !.jobs = IF allocatable /\ sched.jobs > 0 THEN @ - 1 ELSE @]
       /\ UNCHANGED <<bvars, dvars, rvars, fvars, kvars, xvars>>

\* ================================================ the Kubernetes executer
\* what the API server answers to a delete: an ApiException when the call
\* fails or the object does not exist
api_delete(kind, name, fault) ==
    IF fault THEN "Unauthorized"
    ELSE IF name \notin kobj[kind] THEN "Not Found"
    ELSE "Success"

\* ExecutionResponse.raise_api_exception_error
raise_api_exception_error(r, reason) ==
    [r EXCEPT !.status = "failed", !.errors = Append(@, reason)]

\* ExecutionResponse.set_success
set_success(r) == [r EXCEPT !.status = "success"]

\* KubernetesExecuter.delete_pod
delete_pod(r, answer) ==
    IF answer \in {"Success", "Not Found"} THEN set_success(r)
    ELSE raise_api_exception_error(r, answer)

\* KubernetesExecuter.delete_service
delete_service(r, answer) ==
    IF answer = "Success" THEN set_success(r)
    ELSE raise_api_exception_error(r, answer)

\* KubernetesExecuter.delete_configmap: any other exception is handed over
\* as a string, which has no reason, and the call raises AttributeError
delete_configmap(r, answer) ==
    IF answer \in {"Success", "Not Found"} THEN set_success(r)
    ELSE [r EXCEPT !.raised = TRUE]

\* one delete call of the executer, whose response object lives as long as
\* the executer does
ExecDelete(kind, name, fault) ==
    LET answer == api_delete(kind, name, fault)
        r == [resp EXCEPT !.raised = FALSE, !.calls = @ + 1,
                          !.call = [kind |-> kind, found |-> name \in kobj[kind],
                                    fault |-> fault, before |-> Len(resp.errors)]]
    IN /\ resp.calls < MaxCalls
       /\ resp' = IF kind = "pod" THEN delete_pod(r, answer)
                  ELSE IF kind = "service" THEN delete_service(r, answer)
                  ELSE delete_configmap(r, answer)
       /\ kobj' = IF answer = "Success" THEN [kobj EXCEPT ![kind] = @ \ {name}] ELSE kobj
       /\ UNCHANGED <<bvars, dvars, rvars, fvars, svars, xvars>>

\* ============================================================ cluster sync
\* Cluster.update_sync_timestamp
update_sync_timestamp(c) ==
    [c EXCEPT !.last_sync_time = now, !.is_available = TRUE, !.cluster_status = "READY"]

\* Cluster.report_error: is_available is set to False first and is asked
\* afterwards
report_error(c) ==
    LET marked == [c EXCEPT !.is_available = FALSE, !.sync_errors = TRUE]
    IN IF marked.is_available
       THEN [marked EXCEPT !.last_error_timestamp = now]
       ELSE marked

\* sync_kubernetes_cluster: get_nodes_status has answered, ok or not
sync_kubernetes_cluster(ok) ==
    /\ cluster.syncs < MaxSyncs
    /\ cluster' = [(IF ok THEN update_sync_timestamp(cluster) ELSE report_error(cluster))
                     EXCEPT !.syncs = @ + 1, !.failed = ~ok]
    /\ UNCHANGED <<bvars, dvars, rvars, fvars, svars, kvars, round, gmaps, route, is_active>>

\* ======================================================= scheduling tick
\* the nodes of the cluster state that count as allocatable
allocatable_nodes(nodes, job_spec) ==
    {i \in 1..Len(nodes) : check_node_allocability(nodes[i], job_spec)}

\* c_state['num_of_allocatable_nodes']
num_of_allocatable_nodes(nodes, job_spec) == Cardinality(allocatable_nodes(nodes, job_spec))

\* BatchJobGroup.get_next_jobs: the first num rows of a query for the PENDING
\* jobs that asks for no order
next_job_lists(pending, num) ==
    {q \in [1..Min(num, pending) -> 1..pending] :
        \A a, b \in DOMAIN q : a # b => q[a] # q[b]}

\* JobScheduler.schedule with a job that stays in the list when it is taken
RECURSIVE schedule_keeps_job(_, _, _, _)
schedule_keeps_job(nodes, job_spec, next_job_list, i) ==
    IF i > Len(nodes) THEN {}
    ELSE IF ~check_node_allocability(nodes[i], job_spec)
         THEN schedule_keeps_job(nodes, job_spec, next_job_list, i + 1)
    ELSE IF Len(next_job_list) = 0 THEN {}
    ELSE {<<i, next_job_list[Len(next_job_list)]>>}
         \cup schedule_keeps_job(nodes, job_spec, next_job_list, i + 1)

\* JobScheduler.schedule: the nodes from the i-th on are walked in order, a
\* node that is not allocatable is skipped, the walk ends when no job is
\* left, and every other node takes the job that pop() removes from the end
\* of the list; the pairs of a node and the job it took
RECURSIVE schedule(_, _, _, _)
schedule(nodes, job_spec, next_job_list, i) ==
    IF i > Len(nodes) THEN {}
    ELSE IF ~check_node_allocability(nodes[i], job_spec)
         THEN schedule(nodes, job_spec, next_job_list, i + 1)
    ELSE IF Len(next_job_list) = 0 THEN {}
    ELSE {<<i, next_job_list[Len(next_job_list)]>>}
         \cup schedule(nodes, job_spec,
                       SubSeq(next_job_list, 1, Len(next_job_list) - 1), i + 1)

\* scheduling_batch_jobs for the group it visits, from the cluster state to
\* update_scheduling_result
scheduling_round ==
    /\ ~round.done
    /\ \E q \in next_job_lists(round.pending,
                                num_of_allocatable_nodes(round.nodes, round.job_spec)) :
          round' = [round EXCEPT !.done = TRUE, !.next_jobs = q,
                                 !.placed = schedule(round.nodes, round.job_spec, q, 1)]
    /\ UNCHANGED <<bvars, dvars, rvars, fvars, svars, kvars, cluster, gmaps, route, is_active>>

\* ======================================================= ConfigMap names
\* generate_job_queues: configmap['name'] of a group's ConfigMap
group_configmap_name(group_postfix, name) == group_postfix \o <<"-">> \o name

\* RosParamMapList.get_configmap_by_name: the ConfigMap of the map with this
\* name, {} when the manifest has none
get_configmap_by_name(param_map_name) ==
    IF param_map_name \in gmaps.rosParamMap THEN {param_map_name} ELSE {}

\* the name a module refers to when the postfix is left out
attached_configmap_name_plain(configmap_postfix, name) == name

\* _attach_required_rosparameter_and_env_var: the name in the volume of a
\* yaml parameter and in the configMapKeyRef of a key-value parameter
attached_configmap_name(configmap_postfix, name) == configmap_postfix \o <<"-">> \o name

\* generate_job_queues: create_job_groups gives every group its postfix, then
\* the ConfigMaps of every group are named and written
generate_job_queues ==
    /\ gmaps.postfix = <<>>
    /\ \E pf \in [1..NumGroups -> Postfixes] :
          gmaps' = [gmaps EXCEPT
                      !.postfix = pf,
                      !.written = {<<g, group_configmap_name(pf[g], n)>> :
                                      g \in 1..NumGroups, n \in gmaps.rosParamMap}]
    /\ UNCHANGED <<bvars, dvars, rvars, fvars, svars, kvars, cluster, round, route, is_active>>

\* JobScheduler.schedule_rosmodules for a job of group g
schedule_rosmodules(g) ==
    /\ gmaps.postfix # <<>>
    /\ gmaps' = [gmaps EXCEPT
                   !.referenced = @ \cup
                      {<<g, attached_configmap_name(gmaps.postfix[g], n)>> :
                          n \in UNION {get_configmap_by_name(r.value_from) :
                                          r \in gmaps.required}}]
    /\ UNCHANGED <<bvars, dvars, rvars, fvars, svars, kvars, cluster, round, route, is_active>>

\* ================================================ deployments side by side
\* Deployment.get_main_cluster_config
get_main_cluster_config(d) == route.deps[d].cluster

\* Deployment.objects.filter(status__in=['deploying', 'deleting'])
deps_in_progress == {d \in DOMAIN route.deps : route.deps[d].status \in {"deploying", "deleting"}}

\* the variable dep after the loop over deps_in_progress: Meta.ordering is
\* -created_time, so the last deployment of the loop is the oldest
last_dep == CHOOSE d \in deps_in_progress : \A e \in deps_in_progress : d <= e

\* the task processing_deployment_job dispatches for the job of deployment
\* d: its kube_config is dep.get_main_cluster_config()
dispatch(d) ==
    CASE route.deps[d].job_phase = "pending" ->
            {<<d, "deploy_discovery_server", get_main_cluster_config(last_dep)>>}
      [] route.deps[d].job_phase = "disc_server_success" ->
            {<<d, "deploy_rosmodules", get_main_cluster_config(last_dep)>>}
      [] route.deps[d].job_phase = "request_for_delete" ->
            {<<d, "delete_deployed_modules", get_main_cluster_config(last_dep)>>}
      [] OTHER -> {}

\* processing_deployment_job as the beat and the subtasks run it: bind=True
\* puts the task in the place of the list, so the jobs are those of all the
\* deployments in progress
processing_deployment_jobs ==
    /\ \E d \in deps_in_progress : dispatch(d) # {}
    /\ route' = [route EXCEPT
                   !.sent = @ \cup UNION {dispatch(d) : d \in deps_in_progress},
                   !.deps = [d \in DOMAIN route.deps |->
                               IF d \in deps_in_progress
                               THEN [route.deps[d] EXCEPT !.job_phase = NextPhase(@)]
                               ELSE route.deps[d]]]
    /\ UNCHANGED <<bvars, dvars, rvars, fvars, svars, kvars, cluster, round, gmaps, is_active>>

\* the job's pods come up and a delete request arrives, or the deployment
\* leaves the deployments in progress
RouteStep(d, ph, st) ==
    /\ d \in DOMAIN route.deps
    /\ \/ /\ route.deps[d].job_phase = "disc_server_in_progress" /\ ph = "disc_server_success"
          /\ st = route.deps[d].status
       \/ /\ route.deps[d].job_phase = "rosmodule_in_progress" /\ ph = "request_for_delete"
          /\ st = "deleting"
    /\ route' = [route EXCEPT !.deps[d] = [@ EXCEPT !.job_phase = ph, !.status = st]]
    /\ UNCHANGED <<bvars, dvars, rvars, fvars, svars, kvars, cluster, round, gmaps, is_active>>

\* ------------------------------------------------------------------ Next
Tasks ==
    \/ batch_job_deployment_control
    \/ \E i \in Slots : GenStart(i)
    \/ \E i \in Slots : GenGroup(i)
    \/ \E i \in Slots : GenEnd(i)
    \/ scheduling_batch_jobs
    \/ \E j \in Jobs : job_workflow_control(j)
    \/ \E j \in Jobs : single_job_preparing(j)
    \/ \E j \in Jobs : single_job_deploying_rosmodules(j)
    \/ \E j \in Jobs : check_single_job_status(j)
    \/ \E j \in Jobs : single_job_terminating(j)
    \/ batch_job_cleaning
    \/ \E j \in Jobs, p \in Pods : PodStep(j, p)

Interleaved ==
    \/ \E i \in Slots : ControlLoad(i)
    \/ \E i \in Slots : ControlSave(i)
    \/ \E i \in Slots : SchedLoad(i)
    \/ \E i \in Slots : SchedSave(i)
    \/ \E i \in Slots, j \in Jobs, k \in {"prepare", "deploy", "check", "term"} : JobLoad(i, k, j)
    \/ \E i \in Slots : JobLateSave(i)
    \/ \E i \in Slots : CleanLoad(i)
    \/ \E i \in Slots : CleanSave(i)

Requests == Stop \/ Resume \/ Delete

InterleavedRequests ==
    \/ \E i \in Slots : RequestLoad(i)
    \/ \E i \in Slots : RequestSave(i)

Next ==
    \/ Tasks \/ Interleaved \/ Requests \/ InterleavedRequests \/ Tick
    \/ DeployTasks \/ DeployInterleaved \/ DeployDelete \/ DeleteInterleaved
    \/ NameActions
    \/ \E f \in FleetNames, robots \in SUBSET CNodes : ManageCreate(f, robots)
    \/ \E f \in FleetNames, nodes \in SUBSET CNodes : FleetViewCreate(f, nodes)
    \/ \E f \in FleetNames, nodes \in SUBSET CNodes : ManagePatchAdd(f, nodes)
    \/ \E f \in FleetNames : ManageRetrieve(f)
    \/ \E f \in FleetNames : ManageDelete(f)
    \/ \E f \in FleetNames, targets \in SUBSET CNodes : DeployToFleet(f, targets)
    \/ \E f \in FleetNames : DeploymentDeleted(f)
    \/ \E node \in NodeStates : ScheduleNode(node)
    \/ \E kind \in Kinds, name \in ObjNames, fault \in BOOLEAN : ExecDelete(kind, name, fault)
    \/ \E ok \in BOOLEAN : sync_kubernetes_cluster(ok)
    \/ scheduling_round
    \/ generate_job_queues
    \/ \E g \in 1..NumGroups : schedule_rosmodules(g)
    \/ processing_deployment_jobs
    \/ \E d \in 1..MaxDeployments, ph \in {"disc_server_success", "request_for_delete"},
           st \in {"deploying", "deleting"} : RouteStep(d, ph, st)
    \/ SoftDelete

Spec == Init /\ [][Next]_vars

\* ---------------------------------------------------------- specifications
\* One group of one job on a cluster with one node, every cluster call
\* succeeding, both timeouts one second; the tasks, with one of them at a
\* time between its load and its save, and the requests.  The clock stands
\* still.
InitRace ==
    /\ round = NoRound /\ gmaps = NoMaps /\ route = NoRoute
    /\ sched = NoSchedule /\ kobj = NoObjects
    /\ Init
    /\ dcfg = [robots |-> 1, modules |-> 1, configmaps |-> 1, faults |-> FALSE]
    /\ cfg = [value_list |-> <<1>>, nrep |-> 1, nodes |-> 1, faults |-> FALSE]
    /\ dep.startup_timeout = 1 /\ dep.running_timeout = 1

NextRace == Tasks \/ Interleaved \/ Requests

SpecRace == InitRace /\ [][NextRace]_vars

\* The same job with every choice of the two timeouts; the tasks, each in
\* one step, and the clock.
InitTimed ==
    /\ round = NoRound /\ gmaps = NoMaps /\ route = NoRoute
    /\ sched = NoSchedule /\ kobj = NoObjects
    /\ Init
    /\ dcfg = [robots |-> 1, modules |-> 1, configmaps |-> 1, faults |-> FALSE]
    /\ cfg = [value_list |-> <<1>>, nrep |-> 1, nodes |-> 1, faults |-> FALSE]

NextTimed == Tasks \/ Tick

SpecTimed == InitTimed /\ [][NextTimed]_vars

\* The same with a startup timeout of a day.
InitDay ==
    /\ round = NoRound /\ gmaps = NoMaps /\ route = NoRoute
    /\ sched = NoSchedule /\ kobj = NoObjects
    /\ Init
    /\ dcfg = [robots |-> 1, modules |-> 1, configmaps |-> 1, faults |-> FALSE]
    /\ cfg = [value_list |-> <<1>>, nrep |-> 1, nodes |-> 1, faults |-> FALSE]
    /\ dep.startup_timeout = DaySeconds

SpecDay == InitDay /\ [][NextTimed]_vars

\* Up to NumGroups groups of one job, with cluster calls that may fail; the
\* tasks alone, each in one step.
InitGen ==
    /\ round = NoRound /\ gmaps = NoMaps /\ route = NoRoute
    /\ sched = NoSchedule /\ kobj = NoObjects
    /\ Init
    /\ dcfg = [robots |-> 1, modules |-> 1, configmaps |-> 1, faults |-> FALSE]
    /\ cfg.faults /\ cfg.nodes = 1 /\ cfg.nrep = 1
    /\ dep.startup_timeout = 1 /\ dep.running_timeout = 1

SpecGen == InitGen /\ [][Tasks]_vars

\* One job, every cluster call succeeding; the tasks, each in one step, and
\* the requests.  A worker takes every task that stays queued, and the
\* cluster goes on with every pod.
InitLive ==
    /\ round = NoRound /\ gmaps = NoMaps /\ route = NoRoute
    /\ sched = NoSchedule /\ kobj = NoObjects
    /\ Init
    /\ dcfg = [robots |-> 1, modules |-> 1, configmaps |-> 1, faults |-> FALSE]
    /\ cfg = [value_list |-> <<1>>, nrep |-> 1, nodes |-> 1, faults |-> FALSE]
    /\ dep.startup_timeout = 1 /\ dep.running_timeout = 1

NextLive == Tasks \/ Requests

FairLive ==
    /\ WF_vars(batch_job_deployment_control)
    /\ WF_vars(\E i \in Slots : GenStart(i))
    /\ WF_vars(\E i \in Slots : GenGroup(i))
    /\ WF_vars(\E i \in Slots : GenEnd(i))
    /\ WF_vars(scheduling_batch_jobs)
    /\ WF_vars(batch_job_cleaning)
    /\ \A j \in Jobs :
         /\ WF_vars(job_workflow_control(j))
         /\ WF_vars(single_job_preparing(j))
         /\ WF_vars(single_job_deploying_rosmodules(j))
         /\ WF_vars(check_single_job_status(j))
         /\ WF_vars(single_job_terminating(j))
         /\ \A p \in Pods : WF_vars(PodStep(j, p))

SpecLive == InitLive /\ [][NextLive]_vars /\ FairLive

\* Batches whose job spec asks for no repetition, so that the deployment row
\* goes through its statuses on its own: every writer of the row, in one step
\* or with other steps between its read and its save.  Generation of one
\* group, the controller and cleaning ticks, and the stop, resume and delete
\* requests; cluster calls may fail.
InitStamp ==
    /\ round = NoRound /\ gmaps = NoMaps /\ route = NoRoute
    /\ sched = NoSchedule /\ kobj = NoObjects
    /\ Init
    /\ dcfg = [robots |-> 1, modules |-> 1, configmaps |-> 1, faults |-> FALSE]
    /\ cfg.value_list = <<1>> /\ cfg.nrep = 0 /\ cfg.nodes = 1
    /\ dep.startup_timeout = 1 /\ dep.running_timeout = 1

NextStamp ==
    \/ batch_job_deployment_control
    \/ \E i \in Slots : GenStart(i)
    \/ \E i \in Slots : GenGroup(i)
    \/ \E i \in Slots : GenEnd(i)
    \/ batch_job_cleaning
    \/ \E i \in Slots : ControlLoad(i)
    \/ \E i \in Slots : ControlSave(i)
    \/ \E i \in Slots : CleanLoad(i)
    \/ \E i \in Slots : CleanSave(i)
    \/ Requests
    \/ InterleavedRequests

SpecStamp == InitStamp /\ [][NextStamp]_vars

\* A deployment for one robot with up to MaxModules module pods and from
\* none to MaxConfigMaps ConfigMaps, every cluster call succeeding: the deploy
\* request, the tasks, status checks in one step or with other steps between
\* their read and their save, and delete requests.
InitDeploy ==
    /\ round = NoRound /\ gmaps = NoMaps /\ route = NoRoute
    /\ sched = NoSchedule /\ kobj = NoObjects
    /\ Init
    /\ cfg = [value_list |-> <<1>>, nrep |-> 1, nodes |-> 1, faults |-> FALSE]
    /\ dep.startup_timeout = 1 /\ dep.running_timeout = 1
    /\ dcfg.robots = 1 /\ ~dcfg.faults

NextDeploy ==
    \/ prepare_deployment_env
    \/ delete_deployed_configmaps
    \/ PostResult
    \/ PostTimeout
    \/ processing_deployment_job
    \/ \E r \in Robots : deploy_discovery_server(r)
    \/ \E r \in Robots : deploy_rosmodules(r)
    \/ \E r \in Robots : delete_deployed_modules(r)
    \/ \E r \in Robots : check_deployment_job_status(r)
    \/ \E r \in Robots, k \in PodIx : DeployPodStep(r, k)
    \/ DeployInterleaved
    \/ DeployDelete

SpecDeploy == InitDeploy /\ [][NextDeploy]_vars

\* The same deployment with one module pod and one ConfigMap.  A worker takes
\* every task that stays queued, a status check that has read saves, the
\* deploy request gets the result that is there, and the cluster goes on
\* with every pod.  Nothing obliges the client to send a request.
InitDeployLive ==
    /\ round = NoRound /\ gmaps = NoMaps /\ route = NoRoute
    /\ sched = NoSchedule /\ kobj = NoObjects
    /\ Init
    /\ cfg = [value_list |-> <<1>>, nrep |-> 1, nodes |-> 1, faults |-> FALSE]
    /\ dep.startup_timeout = 1 /\ dep.running_timeout = 1
    /\ dcfg = [robots |-> 1, modules |-> 1, configmaps |-> 1, faults |-> FALSE]

FairDeploy ==
    /\ WF_vars(prepare_deployment_env)
    /\ WF_vars(PostResult)
    /\ WF_vars(processing_deployment_job)
    /\ WF_vars(\E i \in CheckSlots : DepCheckSave(i))
    /\ \A r \in Robots :
         /\ WF_vars(deploy_discovery_server(r))
         /\ WF_vars(deploy_rosmodules(r))
         /\ WF_vars(delete_deployed_modules(r))
         /\ WF_vars(check_deployment_job_status(r))
         /\ \A k \in PodIx : WF_vars(DeployPodStep(r, k))

\* no ConfigMap is left behind to delete when no cluster call fails
NextDeployLive ==
    \/ prepare_deployment_env
    \/ PostResult
    \/ PostTimeout
    \/ processing_deployment_job
    \/ \E r \in Robots : deploy_discovery_server(r)
    \/ \E r \in Robots : deploy_rosmodules(r)
    \/ \E r \in Robots : delete_deployed_modules(r)
    \/ \E r \in Robots : check_deployment_job_status(r)
    \/ \E r \in Robots, k \in PodIx : DeployPodStep(r, k)
    \/ DeployInterleaved
    \/ DeployDelete

SpecDeployLive == InitDeployLive /\ [][NextDeployLive]_vars /\ FairDeploy

\* A deployment for one robot with MaxModules module pods on a cluster whose
\* calls may fail and whose pods may fail; the deploy request and the tasks,
\* each in one step, under the same scheduling.  No delete request.
InitDeployFaults ==
    /\ round = NoRound /\ gmaps = NoMaps /\ route = NoRoute
    /\ sched = NoSchedule /\ kobj = NoObjects
    /\ Init
    /\ cfg = [value_list |-> <<1>>, nrep |-> 1, nodes |-> 1, faults |-> FALSE]
    /\ dep.startup_timeout = 1 /\ dep.running_timeout = 1
    /\ dcfg.robots = 1 /\ dcfg.modules = MaxModules /\ dcfg.faults

NextDeployFaults ==
    \/ prepare_deployment_env
    \/ delete_deployed_configmaps
    \/ PostResult
    \/ PostTimeout
    \/ processing_deployment_job
    \/ \E r \in Robots : deploy_discovery_server(r)
    \/ \E r \in Robots : deploy_rosmodules(r)
    \/ \E r \in Robots : check_deployment_job_status(r)
    \/ \E r \in Robots, k \in PodIx : DeployPodStep(r, k)

SpecDeployFaults ==
    InitDeployFaults /\ [][NextDeployFaults]_vars
        /\ FairDeploy /\ WF_vars(delete_deployed_configmaps)

\* A deployment for two robots with one module pod each, which may fail; the
\* deploy request and the tasks, status checks in one step or with other
\* steps between their read and their save.  No delete request.
InitDeployFail ==
    /\ round = NoRound /\ gmaps = NoMaps /\ route = NoRoute
    /\ sched = NoSchedule /\ kobj = NoObjects
    /\ Init
    /\ cfg = [value_list |-> <<1>>, nrep |-> 1, nodes |-> 1, faults |-> FALSE]
    /\ dep.startup_timeout = 1 /\ dep.running_timeout = 1
    /\ dcfg = [robots |-> 2, modules |-> 1, configmaps |-> 1, faults |-> TRUE]

NextDeployFail == NextDeployFaults \/ DeployInterleaved

SpecDeployFail == InitDeployFail /\ [][NextDeployFail]_vars

\* A deployment for one robot with one module pod and one ConfigMap, every
\* cluster call succeeding: the deploy request, the tasks, and delete requests
\* in one step or with other steps between their reads and the rest.
InitDeployEvents ==
    /\ round = NoRound /\ gmaps = NoMaps /\ route = NoRoute
    /\ sched = NoSchedule /\ kobj = NoObjects
    /\ Init
    /\ cfg = [value_list |-> <<1>>, nrep |-> 1, nodes |-> 1, faults |-> FALSE]
    /\ dep.startup_timeout = 1 /\ dep.running_timeout = 1
    /\ dcfg = [robots |-> 1, modules |-> 1, configmaps |-> 1, faults |-> FALSE]

NextDeployEvents ==
    \/ prepare_deployment_env
    \/ PostResult
    \/ PostTimeout
    \/ processing_deployment_job
    \/ \E r \in Robots : deploy_discovery_server(r)
    \/ \E r \in Robots : deploy_rosmodules(r)
    \/ \E r \in Robots : delete_deployed_modules(r)
    \/ \E r \in Robots : check_deployment_job_status(r)
    \/ \E r \in Robots, k \in PodIx : DeployPodStep(r, k)
    \/ DeployDelete
    \/ \E c \in Deleters : DeleteEventGet(c)
    \/ \E c \in Deleters : DeleteEventSave(c)

SpecDeployEvents == InitDeployEvents /\ [][NextDeployEvents]_vars

\* The Deployment table: deploy requests of MaxClients clients, whose name
\* check and whose insert are separate steps, and requests and tasks that
\* load a row and save their copy later.
InitNames ==
    /\ round = NoRound /\ gmaps = NoMaps /\ route = NoRoute
    /\ sched = NoSchedule /\ kobj = NoObjects
    /\ Init
    /\ cfg = [value_list |-> <<1>>, nrep |-> 1, nodes |-> 1, faults |-> FALSE]
    /\ dep.startup_timeout = 1 /\ dep.running_timeout = 1
    /\ dcfg = [robots |-> 1, modules |-> 1, configmaps |-> 1, faults |-> FALSE]

NextNames ==
    \/ \E c \in Clients, n \in Names : CreateCheck(c, n)
    \/ \E c \in Clients : CreateInsert(c)
    \/ \E h \in Holders, i \in RowIds : LoadRow(h, i)
    \/ \E h \in Holders, kind \in {"status", "deleted", "active"} : SaveRow(h, kind)
    \/ \E h \in Holders : DropRow(h)

SpecNames == InitNames /\ [][NextNames]_vars

\* Every job spec with up to MaxParams varying parameters and up to NumGroups
\* combinations, on a cluster that has no node to give: generation, the
\* controller and scheduling ticks, which find nothing to schedule, and the
\* stop and resume requests.
InitCount ==
    /\ round = NoRound /\ gmaps = NoMaps /\ route = NoRoute
    /\ sched = NoSchedule /\ kobj = NoObjects
    /\ Init
    /\ dcfg = [robots |-> 1, modules |-> 1, configmaps |-> 1, faults |-> FALSE]
    /\ cfg.nodes = 0
    /\ dep.startup_timeout = 1 /\ dep.running_timeout = 1

NextCount ==
    \/ batch_job_deployment_control
    \/ \E i \in Slots : GenStart(i)
    \/ \E i \in Slots : GenGroup(i)
    \/ \E i \in Slots : GenEnd(i)
    \/ scheduling_batch_jobs
    \/ Stop
    \/ Resume

SpecCount == InitCount /\ [][NextCount]_vars

\* The fleets: create, add-node, retrieve and delete requests for MaxFleets
\* fleet names over MaxCNodes onboard computers, deploy requests that target
\* a fleet, and the deletion of their deployments.
InitFleet ==
    /\ round = NoRound /\ gmaps = NoMaps /\ route = NoRoute
    /\ sched = NoSchedule /\ kobj = NoObjects
    /\ cfg = [value_list |-> <<1>>, nrep |-> 1, nodes |-> 1, faults |-> FALSE]
    /\ dcfg = [robots |-> 1, modules |-> 1, configmaps |-> 1, faults |-> FALSE]
    /\ Init
    /\ dep.startup_timeout = 1 /\ dep.running_timeout = 1

NextFleet ==
    \/ \E f \in FleetNames, robots \in SUBSET CNodes : ManageCreate(f, robots)
    \/ \E f \in FleetNames, nodes \in SUBSET CNodes : FleetViewCreate(f, nodes)
    \/ \E f \in FleetNames, nodes \in SUBSET CNodes : ManagePatchAdd(f, nodes)
    \/ \E f \in FleetNames : ManageRetrieve(f)
    \/ \E f \in FleetNames : ManageDelete(f)
    \/ \E f \in FleetNames, targets \in SUBSET CNodes : DeployToFleet(f, targets)
    \/ \E f \in FleetNames : DeploymentDeleted(f)

SpecFleet == InitFleet /\ [][NextFleet]_vars

\* One scheduling pass for every job spec and up to MaxNextJobs next jobs,
\* over every cluster state of up to MaxSchedNodes nodes.
InitSchedule ==
    /\ round = NoRound /\ gmaps = NoMaps /\ route = NoRoute
    /\ kobj = NoObjects
    /\ cfg = [value_list |-> <<1>>, nrep |-> 1, nodes |-> 1, faults |-> FALSE]
    /\ dcfg = [robots |-> 1, modules |-> 1, configmaps |-> 1, faults |-> FALSE]
    /\ Init
    /\ dep.startup_timeout = 1 /\ dep.running_timeout = 1

NextSchedule == \E node \in NodeStates : ScheduleNode(node)

SpecSchedule == InitSchedule /\ [][NextSchedule]_vars

\* One executer over every content of its namespace: up to MaxCalls delete
\* calls, each of which the API server may fail.
InitExec ==
    /\ round = NoRound /\ gmaps = NoMaps /\ route = NoRoute
    /\ sched = NoSchedule
    /\ cfg = [value_list |-> <<1>>, nrep |-> 1, nodes |-> 1, faults |-> FALSE]
    /\ dcfg = [robots |-> 1, modules |-> 1, configmaps |-> 1, faults |-> FALSE]
    /\ Init
    /\ dep.startup_timeout = 1 /\ dep.running_timeout = 1

NextExec == \E kind \in Kinds, name \in ObjNames, fault \in BOOLEAN : ExecDelete(kind, name, fault)

SpecExec == InitExec /\ [][NextExec]_vars

\* The exec cluster: syncs that succeed or fail, and the clock.
InitSync ==
    /\ round = NoRound /\ gmaps = NoMaps /\ route = NoRoute
    /\ sched = NoSchedule /\ kobj = NoObjects
    /\ cfg = [value_list |-> <<1>>, nrep |-> 1, nodes |-> 1, faults |-> FALSE]
    /\ dcfg = [robots |-> 1, modules |-> 1, configmaps |-> 1, faults |-> FALSE]
    /\ Init
    /\ dep.startup_timeout = 1 /\ dep.running_timeout = 1

NextSync ==
    \/ \E ok \in BOOLEAN : sync_kubernetes_cluster(ok)
    \/ Tick

SpecSync == InitSync /\ [][NextSync]_vars

\* One scheduling tick for every cluster state of up to MaxSchedNodes nodes
\* and up to MaxPending pending jobs.
InitRound ==
    /\ gmaps = NoMaps /\ route = NoRoute
    /\ sched = NoSchedule /\ kobj = NoObjects
    /\ cfg = [value_list |-> <<1>>, nrep |-> 1, nodes |-> 1, faults |-> FALSE]
    /\ dcfg = [robots |-> 1, modules |-> 1, configmaps |-> 1, faults |-> FALSE]
    /\ Init
    /\ dep.startup_timeout = 1 /\ dep.running_timeout = 1

SpecRound == InitRound /\ [][scheduling_round]_vars

\* The ConfigMap names of the job groups, for every rosParamMap and every set
\* of required parameters over MapNames and every choice of the postfixes.
InitMaps ==
    /\ round = NoRound /\ route = NoRoute
    /\ sched = NoSchedule /\ kobj = NoObjects
    /\ cfg = [value_list |-> <<1>>, nrep |-> 1, nodes |-> 1, faults |-> FALSE]
    /\ dcfg = [robots |-> 1, modules |-> 1, configmaps |-> 1, faults |-> FALSE]
    /\ Init
    /\ dep.startup_timeout = 1 /\ dep.running_timeout = 1

NextMaps ==
    \/ generate_job_queues
    \/ \E g \in 1..NumGroups : schedule_rosmodules(g)

SpecMaps == InitMaps /\ [][NextMaps]_vars

\* Up to MaxDeployments deployments, each with one job, on up to MaxClusters
\* main clusters.
InitRoute ==
    /\ round = NoRound /\ gmaps = NoMaps
    /\ sched = NoSchedule /\ kobj = NoObjects
    /\ cfg = [value_list |-> <<1>>, nrep |-> 1, nodes |-> 1, faults |-> FALSE]
    /\ dcfg = [robots |-> 1, modules |-> 1, configmaps |-> 1, faults |-> FALSE]
    /\ Init
    /\ dep.startup_timeout = 1 /\ dep.running_timeout = 1

NextRoute ==
    \/ processing_deployment_jobs
    \/ \E d \in 1..MaxDeployments, ph \in {"disc_server_success", "request_for_delete"},
           st \in {"deploying", "deleting"} : RouteStep(d, ph, st)

SpecRoute == InitRoute /\ [][NextRoute]_vars

\* One job, every cluster call succeeding; the tasks, each in one step, and
\* the soft delete request.
InitSoft ==
    /\ round = NoRound /\ gmaps = NoMaps /\ route = NoRoute
    /\ sched = NoSchedule /\ kobj = NoObjects
    /\ Init
    /\ dcfg = [robots |-> 1, modules |-> 1, configmaps |-> 1, faults |-> FALSE]
    /\ cfg = [value_list |-> <<1>>, nrep |-> 1, nodes |-> 1, faults |-> FALSE]
    /\ dep.startup_timeout = 1 /\ dep.running_timeout = 1

NextSoft == Tasks \/ SoftDelete

SpecSoft == InitSoft /\ [][NextSoft]_vars

\* ------------------------------------------------------------ properties
\* C1: each KuberosJob is handed to a job workflow at most once: no job has
\* two workflows started for it, whatever scheduling ticks run concurrently.
C1_DispatchedAtMostOnce == \A j \in Jobs : started[j] <= 1

\* C2: whenever the deployment's status is COMPLETED, every job of the batch
\* has status COMPLETED.
C2_CompletedMeansAllJobsCompleted ==
    dep.status = "COMPLETED" =>
        \A j \in Jobs : job[j].exists => job[j].status = "COMPLETED"

\* C3: while the deployment's status is STOPPED no step moves a job from
\* PENDING to SCHEDULED, the steps of a scheduling tick that was queued or
\* running when the stop request was accepted included.
C3_NoSchedulingWhileStopped ==
    [][dep.status = "STOPPED" =>
         \A j \in Jobs : ~(job[j].status = "PENDING" /\ job'[j].status = "SCHEDULED")]_vars

StatusOrder ==
    <<"PENDING", "SCHEDULED", "PREPARING", "PREPARED", "DEPLOYING", "RUNNING",
      "FINISHED", "TERMINATING", "COMPLETED">>

Rank(s) == CHOOSE k \in 1..Len(StatusOrder) : StatusOrder[k] = s

\* C4: no write stores in a job a status that precedes, in the order PENDING,
\* SCHEDULED, PREPARING, PREPARED, DEPLOYING, RUNNING, FINISHED, TERMINATING,
\* COMPLETED, the status the job has; a job never leaves COMPLETED.
C4_StatusNeverMovesBackward ==
    [][\A j \in Jobs :
         job[j].exists /\ job[j].status # "FAILED" =>
            /\ job[j].status = "COMPLETED" => job'[j].status = "COMPLETED"
            /\ job'[j].status # "FAILED" => Rank(job'[j].status) >= Rank(job[j].status)]_vars

\* a step in which a worker runs check_single_job_status on job j in one go
CheckRuns(j) == queue'[<<"check", j>>] < queue[<<"check", j>>] /\ w' = w

\* C5: a status check that runs on a PREPARING or DEPLOYING job more than
\* startup_timeout seconds after scheduled_at, or on a RUNNING job more than
\* running_timeout seconds after running_at, leaves the job FINISHED with
\* success false.
C5_TimeoutFailsAtNextCheck ==
    [][\A j \in Jobs :
         /\ CheckRuns(j)
         /\ \/ /\ job[j].status \in {"PREPARING", "DEPLOYING"}
               /\ now - job[j].scheduled_at > dep.startup_timeout
            \/ /\ job[j].status = "RUNNING"
               /\ now - job[j].running_at > dep.running_timeout
         => job'[j].status = "FINISHED" /\ ~job'[j].success]_vars

\* C6: a step takes a job that is DEPLOYING or RUNNING to FINISHED with
\* success still true only if it is a status check that saw the lifecycle
\* module's pod in phase Succeeded.
C6_FinishedOnlyOnLifecycleSucceeded ==
    [][\A j \in Jobs :
         /\ job[j].status \in {"DEPLOYING", "RUNNING"}
         /\ job'[j].status = "FINISHED"
         /\ job'[j].success
         => CheckRuns(j) /\ pod[j][lifecycle_rosmodule_name] = "Succeeded"]_vars

\* a job finished as a success by a status check that saw the lifecycle pod
\* Succeeded after the job had been RUNNING
C6_Witness ==
    \E j \in Jobs :
        /\ job[j].status = "FINISHED" /\ job[j].success
        /\ job[j].running_at # NoTime
        /\ pod[j][lifecycle_rosmodule_name] = "Succeeded"

\* C7: a status check that runs on a RUNNING job one of whose module pods is
\* in phase Failed leaves the job FINISHED with success false.
C7_FailedModuleFailsJob ==
    [][\A j \in Jobs :
         /\ CheckRuns(j)
         /\ job[j].status = "RUNNING"
         /\ \E p \in Pods : pod_type(p) # "discovery_server" /\ pod[j][p] = "Failed"
         => job'[j].status = "FINISHED" /\ ~job'[j].success]_vars

\* C8: once the ConfigMaps of some job group failed to be written the
\* deployment's status is not EXECUTING and no job of the batch has left
\* PENDING.
C8_ConfigMapFailureStopsBatch ==
    (\E g \in Groups : cm[g] = "failed") =>
        /\ dep.status # "EXECUTING"
        /\ \A j \in Jobs : job[j].exists => job[j].status = "PENDING"

\* C9: once the deployment is CLEANING every job of the batch, the jobs that
\* are PENDING and were never scheduled included, eventually has status
\* COMPLETED.
C9_CleaningCompletesEveryJob ==
    \A j \in Jobs :
        (dep.status = "CLEANING" /\ job[j].exists) ~> (job[j].status = "COMPLETED")

\* C10: whenever the deployment is WAITING_FOR_FINISHING, more than
\* startup_timeout + running_timeout seconds have passed since
\* scheduling_done_at and a controller tick is queued, that tick sets the
\* status to CLEANING, whatever the two timeouts and the jobs in flight.
C10_WaitingTimeoutForcesCleaning ==
    /\ dep.status = "WAITING_FOR_FINISHING"
    /\ queue[Ctl] > 0
    /\ dep.scheduling_done_at # NoTime
    /\ now - dep.scheduling_done_at > dep.startup_timeout + dep.running_timeout
    => waiting_for_finishing(dep, now).status = "CLEANING"

JobsOf(g) == {j \in Jobs : GroupOf(j) = g /\ job[j].exists}

AllConfigMapsWritten ==
    \A g \in 1..groups : cm[g] \in {"written", "deleted"}

\* C11: once the deployment has left PENDING with the ConfigMaps of every
\* group written, the number of job groups is the product of the valueList
\* lengths, every group holds exactly repeatNum jobs, and the batch holds
\* product times repeatNum jobs.
C11_GroupsAndJobsCount ==
    dep.status # "PENDING" /\ AllConfigMapsWritten =>
        /\ groups = Product(cfg.value_list)
        /\ \A g \in 1..groups : Cardinality(JobsOf(g)) = cfg.nrep
        /\ Cardinality({j \in Jobs : job[j].exists}) = Product(cfg.value_list) * cfg.nrep

\* a batch of two varying parameters with different valueList lengths,
\* generated, with every group's ConfigMaps written
C11_Witness ==
    /\ dep.status = "EXECUTING" /\ AllConfigMapsWritten
    /\ Len(cfg.value_list) = 2 /\ cfg.value_list[1] # cfg.value_list[2]
    /\ groups = NumGroups
    /\ \A g \in 1..groups : JobsOf(g) # {}

C13_RunningOnlyIfAllDeploySuccess ==
    deployment.status = "running" =>
        \A r \in JobSet : dep_job[r].job_phase = "deploy_success"

DeployEdges ==
    {<<"pending", "disc_server_in_progress">>,
     <<"disc_server_in_progress", "disc_server_success">>,
     <<"disc_server_success", "rosmodule_in_progress">>,
     <<"rosmodule_in_progress", "deploy_success">>,
     <<"rosmodule_in_progress", "deploy_failed">>,
     <<"request_for_delete", "delete_in_progress">>,
     <<"delete_in_progress", "delete_success">>}

DocumentedEdge(p, q) ==
    \/ <<p, q>> \in DeployEdges
    \/ q = "request_for_delete" /\ p \notin {"delete_in_progress", "delete_success"}

\* C15: every change of a job's phase follows a documented edge; a job in
\* delete_in_progress or delete_success never goes back.
C15_PhaseFollowsDocumentedEdges ==
    [][\A r \in Robots :
          dep_job[r].exists /\ dep_job'[r].job_phase # dep_job[r].job_phase
              => DocumentedEdge(dep_job[r].job_phase, dep_job'[r].job_phase)]_vars

\* C16: a status check that saves after the job's phase has changed since
\* its read leaves the phase as it finds it.
C16_NoWriteFromOlderRead ==
    [][\A i \in CheckSlots :
          /\ dw[i].kind = "check" /\ dw'[i] = DIdle
          /\ dep_job[dw[i].r].job_phase # dw[i].job_phase
          => dep_job'[dw[i].r].job_phase = dep_job[dw[i].r].job_phase]_vars

\* C17: a deployment whose jobs a delete request has marked is deleted only
\* when the last two status checks of every job found all its pods NotFound.
C17_DeletedOnlyAfterTwoNotFoundChecks ==
    deployment.status = "deleted" /\ hist.accepted =>
        \A r \in JobSet : hist.nf[r] >= 2

\* C20: once a deploy request has failed or timed out on its ConfigMaps and
\* the tasks it left behind have run, no ConfigMap of the deployment is in
\* the cluster.
C20_NoConfigMapLeftAfterFailedRequest ==
    /\ post.st \in {"failed", "timeout"}
    /\ dq[Prepare] = 0 /\ dq[DeleteConfigMaps] = 0
    /\ hist.deletes = 0
    => kcm = {}

DeletePhases == {"request_for_delete", "delete_in_progress", "delete_success"}

\* C14: after a delete request has been accepted, every job of the
\* deployment is, from some moment on, in request_for_delete,
\* delete_in_progress or delete_success for good.
C14_AcceptedDeleteIsNotLost ==
    hist.accepted ~> [](\A r \in JobSet : dep_job[r].job_phase \in DeletePhases)

\* C18: until the user sends a delete request the deployment is active, and
\* while one of its jobs is in a failure phase its status is failed.
C18_FailedJobFailsActiveDeployment ==
    hist.deletes = 0 =>
        /\ deployment.active
        /\ (\E r \in JobSet : dep_job[r].job_phase \in FailurePhases)
               => deployment.status = "failed"

\* C19: when the creation of a module pod has failed the deployment becomes
\* failed.
C19_FailedPodCreationFailsDeployment ==
    hist.create_failed ~> deployment.status = "failed"

\* C21: a deploy request for one robot with one onboard module and no
\* ConfigMap (no rosparam map), every cluster call succeeding, is not answered
\* as failed.
C21_PlainManifestIsAccepted ==
    dcfg.robots = 1 /\ dcfg.modules = 1 /\ dcfg.configmaps = 0 /\ ~dcfg.faults
        => post.st # "failed"

\* C22: no two active Deployment rows carry the same name.
C22_ActiveNamesAreUnique ==
    \A i \in RowIds, j \in RowIds :
        /\ i # j
        /\ drow[i].exists /\ drow[i].active
        /\ drow[j].exists /\ drow[j].active
        => drow[i].name # drow[j].name

\* a second create passed the name check and was refused at the insert, the
\* deployment was deleted, and its name is held by a later deployment
C22_Witness ==
    /\ \E c \in Clients : creq[c].st = "IntegrityError"
    /\ \E i \in RowIds, j \in RowIds :
          /\ drow[i].exists /\ ~drow[i].active /\ drow[i].name = Mangled(i)
          /\ drow[j].exists /\ drow[j].active /\ drow[j].name \in Names

\* C23: a delete request that arrives while the deletion accepted before is
\* in progress changes neither the deployment's status nor a job's phase.
C23_SecondDeleteChangesNothing ==
    [][hist'.deletes # hist.deletes /\ hist.accepted /\ deployment.status = "deleting"
          => deployment'.status = deployment.status /\ dep_job' = dep_job]_vars

\* C24: the deployment has at most one DeploymentEvent of type DELETE.
C24_AtMostOneDeleteEvent == events <= 1

TerminalPhases == {"deploy_success", "deploy_failed", "delete_success"}

\* C25: a status check of a job that it read in a terminal phase changes no
\* job's phase and no pod.
C25_CheckOfTerminalJobChangesNothing ==
    [][\A i \in CheckSlots :
          dw[i].kind = "check" /\ dw'[i] = DIdle /\ dw[i].job_phase \in TerminalPhases
          => dep_job' = dep_job /\ kpod' = kpod]_vars


\* C26: a deploy request whose target fleet is inactive, has no nodes or lacks
\* one of the target robots is answered with reason FleetResourceCheckFailed
\* and creates no Deployment.
C26_UndeployableFleetIsRefused ==
    [][/\ fres'.n # fres.n /\ fres'.op = "deploy"
       /\ fleet[fres'.fleet].exists
       /\ \E targets \in SUBSET CNodes :
             /\ DeployToFleet(fres'.fleet, targets)
             /\ \/ ~fleet[fres'.fleet].healthy
                \/ fleet_node_set(fres'.fleet) = {}
                \/ ~(targets \subseteq fleet_node_set(fres'.fleet))
       => fres'.reason = "FleetResourceCheckFailed" /\ fdep' = fdep]_vars

\* C27: a delete request for a fleet that an active deployment targets is
\* answered with reason FleetInUse and leaves the fleet, its fleet nodes and
\* the labels of their cluster nodes as they are.
C27_FleetInUseIsNotDeleted ==
    [][/\ fres'.n # fres.n /\ fres'.op = "delete"
       /\ fleet[fres'.fleet].exists
       /\ fdep[fres'.fleet] > 0
       => /\ fres'.reason = "FleetInUse"
          /\ fleet' = fleet /\ fnode' = fnode /\ clabel' = clabel]_vars

\* C28: no cluster node that is not shared is bound by fleet nodes to more
\* than one fleet.
C28_OnboardNodeInOneFleet ==
    \A c \in CNodes \ SharedNodes : Cardinality(cluster_node_set(c)) <= 1

C30_DeleteOfMissingSucceeds ==
    resp.call.kind # "none" /\ ~resp.call.found /\ ~resp.call.fault
        => /\ resp.status = "success"
           /\ Len(resp.errors) = resp.call.before
           /\ ~resp.raised

\* C31: a failed sync of a cluster that was available marks it unavailable
\* and sets its last-error timestamp to the time of the failure.
C31_FailedSyncStampsError ==
    [][cluster'.syncs # cluster.syncs /\ cluster'.failed /\ cluster.is_available
          => ~cluster'.is_available /\ cluster'.last_error_timestamp = now]_vars

C33_JobsPlacedInCreationOrder ==
    round.done =>
        \A p \in round.placed :
            p[2] = Cardinality({i \in allocatable_nodes(round.nodes, round.job_spec) : i <= p[1]})


C35_RunningOnlyWhenModulesRun ==
    [][\A j \in Jobs :
         job[j].status = "DEPLOYING" /\ job'[j].status = "RUNNING"
         => \A p \in Pods : pod_type(p) # "discovery_server" => pod[j][p] = "Running"]_vars

\* C36: a job is COMPLETED with success_completed true only if its lifecycle
\* pod was seen Succeeded while the job was RUNNING: such a job has been
\* RUNNING, so its running_at is set, and a job that batch cleaning terminated
\* before it ran is not COMPLETED as a success.
C36_SuccessOnlyAfterLifecycleSucceeded ==
    \A j \in Jobs :
        job[j].exists /\ job[j].status = "COMPLETED" /\ job[j].success
            => job[j].running_at # NoTime

\* C37: once a stop request has been accepted the deployment's status stays
\* STOPPED until a resume or a delete request is accepted: no other step, and
\* no controller tick that read the status before the stop, writes another
\* status over it.
C37_StoppedUntilResumeOrDelete ==
    [][dep.status = "STOPPED" /\ dep'.status # "STOPPED" => reqs' = reqs + 1]_vars

\* C38: no deployment stays in status deploying forever: when the discovery
\* server or a module pod cannot be created, or the discovery server never
\* runs, or the deploy request is answered with a failure, the deployment
\* leaves deploying all the same.
C38_DeployingEnds ==
    (deployment.status = "deploying") ~> (deployment.status # "deploying")

\* C39: with several deployments in progress every create or delete task
\* dispatched for a job goes to the main cluster of the fleet of the job's
\* own deployment, never to the cluster of another deployment.
C39_TasksGoToOwnCluster ==
    \A t \in route.sent : t[3] = get_main_cluster_config(t[1])

\* C40: after a batch deployment has been soft-deleted no controller task
\* that was queued before creates job groups, ConfigMaps or jobs for it, and
\* none schedules a job of it.
C40_NothingCreatedAfterSoftDelete ==
    [][~is_active =>
         /\ groups' = groups
         /\ cm' = cm
         /\ \A j \in Jobs :
               /\ job'[j].exists = job[j].exists
               /\ job'[j].status = "SCHEDULED" => job[j].status = "SCHEDULED"]_vars

==========================================================================
